---- MODULE Spec2Model ----
(***************************************************************************)
(* Model of the virtual serial endpoint of OctoPrint-BambuPrinter:         *)
(* printer/bambu_virtual_printer.py (BambuVirtualPrinter),                 *)
(* printer/printer_serial_io.py (PrinterSerialIO),                         *)
(* char_counting_queue.py (CharCountingQueue),                             *)
(* printer/gcode_executor.py (GCodeExecutor), printer/states/*.py and      *)
(* printer/file_system/cached_file_view.py (CachedFileView).               *)
(*                                                                         *)
(* Bytes are one-character strings, byte strings are sequences of them.    *)
(* Lines sent to the host are strings.  A Python attribute that has never  *)
(* been assigned is the value Unset; reading it raises AttributeError.     *)
(* An optional value (None or an object) is a sequence of length 0 or 1.   *)
(***************************************************************************)
EXTENDS Integers, Sequences, FiniteSets, TLC

\* ------------------------------------------------------------------ bounds
\* number of write() calls the host makes
MaxWrites == 2
\* number of telemetry pushes the remote controller makes
MaxPushes == 2
\* number of lines the reader loop hands to line processing
MaxLines == 3
\* the most files the remote file service holds
MaxFiles == 5
\* the most refreshes of the catalog a thread other than the reader starts
MaxRefreshes == 2
\* the most lookups made in the catalog
MaxLookups == 3
\* the most filaments the sliced metadata declares
MaxFilaments == 2

\* ------------------------------------------------------- program constants
\* PrinterSerialIO._rx_buffer_size
rx_buffer_size == 64
\* the trays of one AMS unit in the global tray id
TraysPerUnit == 4

Unset == -1

\* --------------------------------------------------------- byte strings
Digits == <<"0", "1", "2", "3", "4", "5", "6", "7", "8", "9">>

Printable ==
  <<" ", "!", "dquote", "#", "$", "%", "&", "'", "(", ")", "*", "+", ",", "-", ".", "/",
    "0", "1", "2", "3", "4", "5", "6", "7", "8", "9", ":", ";", "<", "=", ">", "?",
    "@", "A", "B", "C", "D", "E", "F", "G", "H", "I", "J", "K", "L", "M", "N", "O",
    "P", "Q", "R", "S", "T", "U", "V", "W", "X", "Y", "Z", "[", "bslash", "]", "^", "_",
    "bquote", "a", "b", "c", "d", "e", "f", "g", "h", "i", "j", "k", "l", "m", "n", "o",
    "p", "q", "r", "s", "t", "u", "v", "w", "x", "y", "z", "{", "|", "}", "~">>

\* the ASCII code of a byte (the three bytes spelled out in Printable do not
\* occur in the traffic modelled)
Ord(c) ==
  IF c = "\n" THEN 10
  ELSE IF c = "\t" THEN 9
  ELSE IF c = "\r" THEN 13
  ELSE 31 + (CHOOSE i \in 1..Len(Printable) : Printable[i] = c)

IsSpace(c) == c \in {" ", "\n", "\t", "\r"}

IsDigit(c) == \E i \in 1..10 : Digits[i] = c

DigitVal(c) == (CHOOSE i \in 1..10 : Digits[i] = c) - 1

\* bytes.find(c): index (from 0) of the first c, -1 when there is none
find(b, c) ==
  IF \E i \in 1..Len(b) : b[i] = c
  THEN (CHOOSE i \in 1..Len(b) : b[i] = c /\ \A j \in 1..(i - 1) : b[j] # c) - 1
  ELSE -1

\* bytes.rfind(c): index (from 0) of the last c, -1 when there is none
rfind(b, c) ==
  IF \E i \in 1..Len(b) : b[i] = c
  THEN (CHOOSE i \in 1..Len(b) : b[i] = c /\ \A j \in (i + 1)..Len(b) : b[j] # c) - 1
  ELSE -1

\* sub in b, for byte strings
Contains(b, sub) ==
  \E i \in 0..(Len(b) - Len(sub)) : SubSeq(b, i + 1, i + Len(sub)) = sub

RECURSIVE lstrip(_)
lstrip(b) == IF b # <<>> /\ IsSpace(b[1]) THEN lstrip(Tail(b)) ELSE b

RECURSIVE rstrip(_)
rstrip(b) ==
  IF b # <<>> /\ IsSpace(b[Len(b)]) THEN rstrip(SubSeq(b, 1, Len(b) - 1)) ELSE b

\* bytes.strip()
strip(b) == rstrip(lstrip(b))

\* the longest run of digits of b starting at index i (from 1)
RECURSIVE DigitRun(_, _)
DigitRun(b, i) ==
  IF i <= Len(b) /\ IsDigit(b[i]) THEN <<b[i]>> \o DigitRun(b, i + 1) ELSE <<>>

RECURSIVE DigitsValue(_)
DigitsValue(d) ==
  IF d = <<>> THEN 0 ELSE 10 * DigitsValue(SubSeq(d, 1, Len(d) - 1)) + DigitVal(d[Len(d)])

\* int(b): surrounding whitespace is dropped, an optional sign, then digits
\* only; anything else raises ValueError
ParseInt(b) ==
  LET s == strip(b)
      signed == s # <<>> /\ s[1] \in {"+", "-"}
      body == IF signed THEN Tail(s) ELSE s
      good == body # <<>> /\ \A i \in 1..Len(body) : IsDigit(body[i])
  IN [ok |-> good,
      val |-> IF ~good THEN 0
              ELSE IF signed /\ s[1] = "-" THEN 0 - DigitsValue(body)
              ELSE DigitsValue(body)]

\* "%d" % n, str(n)
RECURSIVE IntStr(_)
IntStr(n) ==
  IF n < 0 THEN "-" \o IntStr(0 - n)
  ELSE IF n < 10 THEN Digits[n + 1]
  ELSE IntStr(n \div 10) \o Digits[(n % 10) + 1]

RECURSIVE IntBytes(_)
IntBytes(n) ==
  IF n < 10 THEN <<Digits[n + 1]>> ELSE IntBytes(n \div 10) \o <<Digits[(n % 10) + 1]>>

\* to_unicode(bytes): the text of a byte string
RECURSIVE to_unicode(_)
to_unicode(b) == IF b = <<>> THEN "" ELSE b[1] \o to_unicode(Tail(b))

\* a ^ b on bytes
RECURSIVE Xor(_, _)
Xor(a, b) ==
  IF a = 0 THEN b
  ELSE IF b = 0 THEN a
  ELSE 2 * Xor(a \div 2, b \div 2) + (IF (a % 2) = (b % 2) THEN 0 ELSE 1)

\* re.search(b"N([0-9]+)", b): the digits of the first N that a digit follows;
\* <<>> when there is no match
SearchLineNumber(b) ==
  LET hits == {i \in 1..Len(b) : b[i] = "N" /\ i < Len(b) /\ IsDigit(b[i + 1])}
  IN IF hits = {} THEN <<>>
     ELSE LET i == CHOOSE k \in hits : \A j \in hits : k <= j
          IN DigitRun(b, i + 1)

\* bytes.split(None, 1): at most two fields, cut at the first run of whitespace
SplitOnce(b) ==
  LET s == lstrip(b)
      ws == {i \in 1..Len(s) : IsSpace(s[i])}
  IN IF s = <<>> THEN <<>>
     ELSE IF ws = {} THEN <<s>>
     ELSE LET i == CHOOSE k \in ws : \A j \in ws : k <= j
              rest == lstrip(SubSeq(s, i, Len(s)))
          IN IF rest = <<>> THEN <<SubSeq(s, 1, i - 1)>>
             ELSE <<SubSeq(s, 1, i - 1), rest>>

\* PrinterSerialIO.command_regex.match(command): <<>> when there is no match,
\* else <<group(1), group(0)>>
command_regex(b) ==
  IF Len(b) >= 2 /\ b[1] \in {"G", "M"} /\ IsDigit(b[2])
  THEN <<[letter |-> <<b[1]>>, gcode |-> <<b[1]>> \o DigitRun(b, 2)]>>
  ELSE <<>>

\* PrinterSerialIO._calculate_checksum
RECURSIVE calculate_checksum(_)
calculate_checksum(line) ==
  IF line = <<>> THEN 0
  ELSE Xor(calculate_checksum(SubSeq(line, 1, Len(line) - 1)), Ord(line[Len(line)]))

\* PrinterSerialIO._read_next_line_buffered: <<additional, buffer>>
read_next_line_buffered(additional, buffer) ==
  LET buf == buffer \o additional
      new_line_pos == find(buf, "\n") + 1
  IN IF new_line_pos > 0
     THEN <<SubSeq(buf, 1, new_line_pos), SubSeq(buf, new_line_pos + 1, Len(buf))>>
     ELSE <<additional, buf>>

\* ------------------------------------------------------------------ state
VARIABLES
  \* PrinterSerialIO
  input_bytes,        \* CharCountingQueue.queue: the chunks queued by write()
  rx_size,            \* CharCountingQueue._size
  rx_unfinished,      \* input_bytes.unfinished_tasks
  output_bytes,       \* PrinterSerialIO.output_bytes: lines for readline()
  serial_running,     \* PrinterSerialIO._running
  lastN,              \* PrinterSerialIO.lastN (Unset until first assigned)
  current_line,       \* PrinterSerialIO.current_line (Unset until first assigned)
  received_lines,     \* PrinterSerialIO._received_lines
  reader,             \* the thread in PrinterSerialIO.run: pc, data, buffer, line
  forceChecksum,      \* settings.get_boolean(["forceChecksum"])
  \* BambuVirtualPrinter
  current_state,      \* _current_state: "Idle", "Printing" or "Paused"
  state_change_queue, \* _state_change_queue
  sc_unfinished,      \* _state_change_queue.unfinished_tasks
  worker,             \* the thread in _printer_worker: pc, next_state
  running,            \* _running
  current_print_job,  \* _current_print_job
  selected_project_file, \* _selected_project_file
  file_alias_cache,   \* _project_files_view._file_alias_cache
  file_data_cache,    \* _project_files_view._file_data_cache
  printingLock,       \* PrintingState._printingLock
  pausedLock,         \* PausedState._pausedLock
  paused_repeated_report, \* PausedState._paused_repeated_report is not None
  print_status_reporter,  \* _print_status_reporter: its interval, 0 for None
  \* the collaborators
  connected,          \* bambu_client.connected
  published,          \* the payloads handed to bambu_client.publish
  remote_files,       \* the paths the remote file service holds
  \* history
  writes,             \* write() calls made
  pushes,             \* telemetry pushes made
  written,            \* every byte write() has accepted, in order
  log,                \* one record per line handed to line processing
  lastPush,           \* the job state of the last telemetry push
  expected,           \* the lifecycle state the mapping table gives for the pushes so far
  prev_state,         \* the state the last transition finalized
  last_write,         \* the last write() call that ended: its data, the occupancy it found, its outcome
  read_after_close,   \* what a readline() made after close() returned gave: "none", "empty", "line"
  \* calls in progress
  write_call,         \* the write() blocked in CharCountingQueue.put: <<>> or <<[data, item]>>
  caller,             \* the thread in flush() or close(): pc, mark
  disconnect_requested, \* bambu_client.disconnect() has been called
  refresher,          \* a thread other than the reader in CachedFileView.update: pc, files, n
  lookups,            \* lookups made in the catalog
  last_lookup,        \* the last lookup: its method and argument, the maps it found, its updates and result
  ams_data,           \* BambuVirtualPrinter.ams_data
  telemetry,          \* _telemetry: the nozzle and bed temperatures stored
  push_raised,        \* the exception the last new_update() let escape, "" for none
  last_mapping        \* the last call of generate_ams_mapping: its arguments and its result

serial_vars == <<input_bytes, rx_size, rx_unfinished, output_bytes, serial_running,
                 lastN, current_line, received_lines, reader, forceChecksum>>
printer_vars == <<current_state, state_change_queue, sc_unfinished, worker, running,
                  current_print_job, selected_project_file, file_alias_cache,
                  file_data_cache, printingLock, pausedLock, paused_repeated_report,
                  print_status_reporter>>
env_vars == <<connected, published, remote_files>>
hist_vars == <<writes, pushes, written, log, lastPush, expected>>
ghost_vars == <<prev_state, last_write, read_after_close>>
call_vars == <<write_call, caller, disconnect_requested>>
catalog_vars == <<refresher, lookups, last_lookup>>
side_vars == <<catalog_vars, ams_data, telemetry, push_raised, last_mapping>>
vars == <<serial_vars, printer_vars, env_vars, hist_vars, ghost_vars, call_vars,
          side_vars>>

\* --------------------------------------------------------- PrinterSerialIO

\* PrinterSerialIO._format_error
format_error(error, args) ==
  "Error: " \o
  (CASE error = "checksum_mismatch" -> "Checksum mismatch"
     [] error = "checksum_missing" -> "Missing checksum"
     [] error = "lineno_mismatch" ->
          "expected line " \o IntStr(args[1]) \o " got " \o IntStr(args[2]))

\* What one call of a method of the reader thread leaves behind: whether it
\* raised, the lines it sent, the two protocol counters, the state of the
\* endpoint and its collaborators (reporter: the interval of the status
\* report timer, 0 for none), whether it took _incoming_lock, and whether it
\* called the command callback; updates counts the calls of
\* CachedFileView.update.
Ctx ==
  [raised |-> "", out |-> <<>>, lastN |-> lastN, current_line |-> current_line,
   pub |-> <<>>, enq |-> <<>>, sel |-> selected_project_file,
   job |-> current_print_job, alias |-> file_alias_cache, data |-> file_data_cache,
   remote |-> remote_files, conn |-> connected, state |-> current_state,
   lock |-> FALSE, called |-> FALSE, reporter |-> print_status_reporter,
   updates |-> 0]

Raise(c, exc) == [c EXCEPT !.raised = exc]

\* PrinterSerialIO.send
send(c, line) == [c EXCEPT !.out = Append(@, line)]

\* PrinterSerialIO.sendOk
sendOk(c) == send(c, "ok")

\* PrinterSerialIO._triggerResend(expected=e, actual=a, checksum=k); an argument
\* left at its default None is <<>>
triggerResend(c, e, a, k) ==
  LET exp == IF e = <<>> THEN c.lastN + 1 ELSE e[1]
      c1 == IF e = <<>> THEN [c EXCEPT !.lock = TRUE]
            ELSE [c EXCEPT !.lastN = exp - 1, !.lock = TRUE]
      c2 == IF a = <<>>
            THEN IF k # <<>> /\ k[1] # 0
                 THEN send(c1, format_error("checksum_mismatch", <<>>))
                 ELSE send(c1, format_error("checksum_missing", <<>>))
            ELSE send(c1, format_error("lineno_mismatch", <<exp, a[1]>>))
  IN IF e = <<>> /\ c.lastN = Unset THEN Raise([c EXCEPT !.lock = TRUE], "AttributeError")
     ELSE sendOk(send(c2, "Resend:" \o IntStr(exp)))

\* ------------------------------------------ the remote file service, catalog

\* The files of the remote file service: the folder listed, the name in the
\* listing, the size and the modification time (as M20 prints it).
NameA == <<"a", ".", "3", "m", "f">>
NameB == <<"b", ".", "3", "m", "f">>
CacheFolder == <<"c", "a", "c", "h", "e", "/">>
RemoteFilesInit ==
  <<[folder |-> <<>>, name |-> NameA, size |-> 1000, date |-> "0x58a60000"],
    [folder |-> <<>>, name |-> NameB, size |-> 1200, date |-> "0x58a70000"],
    [folder |-> CacheFolder, name |-> NameA, size |-> 1200, date |-> "0x58a70000"]>>

\* an insertion-ordered dict is a sequence of [k, v]; a later put of a key
\* already there replaces the value in place
DictHas(d, k) == \E i \in 1..Len(d) : d[i].k = k
DictGet(d, k) == IF DictHas(d, k) THEN <<(d[CHOOSE i \in 1..Len(d) : d[i].k = k]).v>> ELSE <<>>
DictPut(d, k, v) ==
  IF DictHas(d, k) THEN [i \in 1..Len(d) |-> IF d[i].k = k THEN [k |-> k, v |-> v] ELSE d[i]]
  ELSE Append(d, [k |-> k, v |-> v])

\* PurePath.suffixes of a file name contains ".3mf"
HasSuffix3mf(name) ==
  \E i \in 2..(Len(name) - 3) :
    /\ SubSeq(name, i, i + 3) = <<".", "3", "m", "f">>
    /\ (i + 3 = Len(name) \/ name[i + 4] = ".")

\* Path(p).name
PathName(path) == SubSeq(path, rfind(path, "/") + 2, Len(path))

\* Path(p).as_posix().strip("/")
RECURSIVE StripSlashes(_)
StripSlashes(path) ==
  IF path # <<>> /\ path[1] = "/" THEN StripSlashes(Tail(path))
  ELSE IF path # <<>> /\ path[Len(path)] = "/" THEN StripSlashes(SubSeq(path, 1, Len(path) - 1))
  ELSE path

\* octoprint.util.get_dos_filename(name, existing_filenames=existing), for names
\* that already fit 8.3: the name itself, or the first of stem~1.ext, stem~2.ext,
\* ... that is not among the existing ones
RECURSIVE DosCandidate(_, _, _)
DosCandidate(name, existing, n) ==
  LET dot == find(name, ".")
      cand == SubSeq(name, 1, dot) \o <<"~">> \o IntBytes(n) \o SubSeq(name, dot + 1, Len(name))
  IN IF \E i \in 1..Len(existing) : existing[i] = cand
     THEN DosCandidate(name, existing, n + 1)
     ELSE cand

get_dos_filename(name, existing) ==
  IF \E i \in 1..Len(existing) : existing[i] = name
  THEN DosCandidate(name, existing, 1)
  ELSE name

\* IoTFTPSConnection.list_files(folder, ".3mf")
ftp_list_files(remote, folder) ==
  SelectSeq(remote, LAMBDA f : f.folder = folder /\ HasSuffix3mf(f.name))

\* get_ftp_file_info that asks for a short name without passing the names
\* already taken
get_ftp_file_info_ignoring_existing(f, existing) ==
  [dosname |-> get_dos_filename(f.name, <<>>), path |-> f.folder \o f.name,
   size |-> f.size, date |-> f.date]

\* RemoteSDCardFileList._get_ftp_file_info (the names listed are lower case)
get_ftp_file_info(f, existing) ==
  [dosname |-> get_dos_filename(f.name, existing), path |-> f.folder \o f.name,
   size |-> f.size, date |-> f.date]

\* RemoteSDCardFileList.get_file_info_for_names: <<infos, existing_files>>
RECURSIVE get_file_info_for_names(_, _)
get_file_info_for_names(files, existing) ==
  IF files = <<>> THEN <<<<>>, existing>>
  ELSE LET info == get_ftp_file_info(files[1], existing)
           rest == get_file_info_for_names(
                     Tail(files), existing \o <<PathName(info.path), info.dosname>>)
       IN <<<<info>> \o rest[1], rest[2]>>

\* CachedFileView.list_all_views, for the view of __init__:
\* with_filter("", ".3mf").with_filter("cache/", ".3mf")
list_all_views(remote) ==
  LET first == get_file_info_for_names(ftp_list_files(remote, <<>>), <<>>)
      second == get_file_info_for_names(ftp_list_files(remote, CacheFolder), first[2])
  IN first[1] \o second[1]

\* {info.dosname: info.path.as_posix() for info in files}
RECURSIVE AliasDict(_)
AliasDict(files) ==
  IF files = <<>> THEN <<>>
  ELSE DictPut(AliasDict(SubSeq(files, 1, Len(files) - 1)),
               files[Len(files)].dosname, files[Len(files)].path)

\* {info.path.as_posix(): info for info in files}
RECURSIVE DataDict(_)
DataDict(files) ==
  IF files = <<>> THEN <<>>
  ELSE DictPut(DataDict(SubSeq(files, 1, Len(files) - 1)),
               files[Len(files)].path, files[Len(files)])

\* FileInfo.get_gcode_info
get_gcode_info(info) ==
  to_unicode(info.dosname) \o " " \o IntStr(info.size) \o " " \o info.date
    \o " \"" \o to_unicode(PathName(info.path)) \o "\""

\* CachedFileView.get_all_cached_info
get_all_cached_info(c) == [i \in 1..Len(c.data) |-> c.data[i].v]

\* BambuVirtualPrinter._list_cached_project_files
RECURSIVE SendAll(_, _)
SendAll(c, lines) == IF lines = <<>> THEN c ELSE SendAll(send(c, lines[1]), Tail(lines))

list_cached_project_files(c) ==
  LET infos == get_all_cached_info(c)
  IN sendOk(send(SendAll(send(c, "Begin file list"),
                         [i \in 1..Len(infos) |-> get_gcode_info(infos[i])]),
                 "End file list"))

\* CachedFileView._update_file_list_cache
update_file_list_cache(c, files) ==
  [c EXCEPT !.alias = AliasDict(files), !.data = DataDict(files)]

\* CachedFileView.update, with on_update = _list_cached_project_files
update(c) ==
  list_cached_project_files(
    update_file_list_cache([c EXCEPT !.updates = @ + 1], list_all_views(c.remote)))

\* CachedFileView.get_file_data_cached: <<>> or <<FileInfo>>
get_file_data_cached(c, file_path) ==
  LET p1 == StripSlashes(file_path)
      p2 == IF DictHas(c.data, p1) THEN p1
            ELSE IF DictHas(c.alias, p1) THEN DictGet(c.alias, p1)[1] ELSE p1
  IN DictGet(c.data, p2)

\* get_file_data that refreshes before it looks
get_file_data_always_updating(c, file_path) ==
  LET c1 == update(c) IN [c |-> c1, found |-> get_file_data_cached(c1, file_path)]

\* CachedFileView.get_file_data: [c, found]
get_file_data(c, file_path) ==
  LET hit == get_file_data_cached(c, file_path)
  IN IF hit # <<>> THEN [c |-> c, found |-> hit]
     ELSE LET c1 == update(c) IN [c |-> c1, found |-> get_file_data_cached(c1, file_path)]

\* PurePath.suffix of a file name: from the last dot, unless the dot is the
\* first or the last character
PathSuffix(name) ==
  LET i == rfind(name, ".")
  IN IF 0 < i /\ i < Len(name) - 1 THEN SubSeq(name, i + 1, Len(name)) ELSE <<>>

\* PurePath.with_suffix("") of a path with a non-empty name
with_suffix_empty(path) == SubSeq(path, 1, Len(path) - Len(PathSuffix(PathName(path))))

\* PurePath.stem
PathStem(path) ==
  LET name == PathName(path) IN SubSeq(name, 1, Len(name) - Len(PathSuffix(name)))

\* str.split("."), as a sequence of parts
RECURSIVE SplitDots(_)
SplitDots(b) ==
  LET i == find(b, ".")
  IN IF i < 0 THEN <<b>>
     ELSE <<SubSeq(b, 1, i)>> \o SplitDots(SubSeq(b, i + 2, Len(b)))

\* str.lstrip(".")
RECURSIVE LstripDots(_)
LstripDots(b) == IF b # <<>> /\ b[1] = "." THEN LstripDots(Tail(b)) ELSE b

\* PurePath.suffixes
PathSuffixes(path) ==
  LET name == PathName(path)
      parts == SplitDots(LstripDots(name))
  IN IF name # <<>> /\ name[Len(name)] = "." THEN <<>>
     ELSE [i \in 1..(Len(parts) - 1) |-> <<".">> \o parts[i + 1]]

\* CachedFileView._get_file_by_stem_cached: the keys of the data map, then
\* those of the alias map; the first key that matches is looked up
get_file_by_stem_cached(c, file_stem, allowed_suffixes) ==
  LET keys == [i \in 1..Len(c.data) |-> c.data[i].k]
                \o [i \in 1..Len(c.alias) |-> c.alias[i].k]
      Match(k) == /\ file_stem = PathStem(with_suffix_empty(k))
                  /\ \E j \in 1..Len(PathSuffixes(k)) :
                       PathSuffixes(k)[j] \in allowed_suffixes
      hits == SelectSeq(keys, Match)
  IN IF hits = <<>> THEN <<>> ELSE get_file_data_cached(c, hits[1])

\* CachedFileView.get_file_by_stem: [c, found]
get_file_by_stem(c, file_stem, allowed_suffixes) ==
  IF file_stem = <<>> THEN [c |-> c, found |-> <<>>]
  ELSE LET stem == PathStem(with_suffix_empty(file_stem))
           hit == get_file_by_stem_cached(c, stem, allowed_suffixes)
       IN IF hit # <<>> THEN [c |-> c, found |-> hit]
          ELSE LET c1 == update(c)
               IN [c |-> c1, found |-> get_file_by_stem_cached(c1, stem, allowed_suffixes)]

\* ------------------------------------------------- BambuVirtualPrinter

\* bambu_client.publish(payload): the payload is recorded; the result is the
\* collaborator's answer pub_ok
publish(c, payload) == [c EXCEPT !.pub = Append(@, payload)]

\* BambuVirtualPrinter.change_state
change_state(c, new_state) == [c EXCEPT !.enq = Append(@, new_state)]

\* BambuVirtualPrinter._send_file_selected_message
send_file_selected_message(c) ==
  IF c.sel = <<>> THEN c
  ELSE send(send(c, "File opened: " \o to_unicode(c.sel[1].dosname) \o " Size: "
                      \o IntStr(c.sel[1].size)),
            "File selected")

\* BambuVirtualPrinter.remove_project_selection
remove_project_selection(c) == send_file_selected_message([c EXCEPT !.sel = <<>>])

\* BambuVirtualPrinter.select_project_file: the first statement calls
\* CachedFileView.get_file_by_name, which CachedFileView does not define
select_project_file(c, file_path) == [c |-> Raise(c, "AttributeError"), ret |-> FALSE]

\* RemoteSDCardFileList.delete_file: the first statement calls
\* CachedFileView.get_cached_file_data, which CachedFileView does not define
delete_file(c, path) == Raise(c, "AttributeError")

\* BambuVirtualPrinter.report_print_job_status
report_print_job_status(c) ==
  IF c.job # <<>>
  THEN send(c, "SD printing byte "
                 \o IntStr(IF c.job[1].file_position = 0 THEN 1 ELSE c.job[1].file_position)
                 \o "/" \o IntStr(c.job[1].file_info.size))
  ELSE send(c, "Not SD printing")

\* BambuVirtualPrinter.report_print_finished
report_print_finished(c) == IF c.job = <<>> THEN c ELSE send(c, "Done printing file")

\* BambuVirtualPrinter.finalize_print_job
finalize_print_job(c) ==
  LET c1 == IF c.job # <<>>
            THEN report_print_job_status(
                   remove_project_selection(
                     [report_print_finished(report_print_job_status(c)) EXCEPT !.job = <<>>]))
            ELSE c
  IN remove_project_selection(change_state(c1, "Idle"))

\* IdleState.start_new_print: without a selected file nothing happens; with
\* one, the project_file command for its path is published (the diagnostic
\* echo lines of report_physical_ams_status are left out)
Idle_start_new_print(c) ==
  IF c.sel = <<>> THEN c
  ELSE publish(c, "project_file " \o to_unicode(c.sel[1].path))

\* PrintingState.start_new_print: file_system.selected_file is None and
\* _sd_printing_thread is None, since nothing assigns either
Printing_start_new_print(c) == c

\* PausedState.start_new_print
Paused_start_new_print(c, pub_ok) ==
  IF c.conn
  THEN IF pub_ok THEN change_state(publish(c, "RESUME"), "Printing") ELSE publish(c, "RESUME")
  ELSE c

\* Paused_cancel_print that takes the cancel for done whatever publish returns
Paused_cancel_print_assuming_success(c, pub_ok) ==
  IF c.conn THEN finalize_print_job(publish(c, "STOP")) ELSE c

\* PausedState.cancel_print
Paused_cancel_print(c, pub_ok) ==
  IF c.conn
  THEN IF pub_ok THEN finalize_print_job(publish(c, "STOP")) ELSE publish(c, "STOP")
  ELSE c

\* BambuVirtualPrinter._sd_status (M21)
sd_status(c) == [c |-> send(c, "SD card ok"), ret |-> TRUE]

\* BambuVirtualPrinter._select_sd_file (M23)
select_sd_file(c, data) ==
  LET fields == SplitOnce(data)
  IN IF Len(fields) < 2 THEN [c |-> Raise(c, "IndexError"), ret |-> FALSE]
     ELSE select_project_file(remove_project_selection(c), strip(fields[2]))

\* BambuVirtualPrinter._start_resume_sd_print (M24)
start_resume_sd_print(c, pub_ok) ==
  [c |-> CASE c.state = "Idle" -> Idle_start_new_print(c)
           [] c.state = "Printing" -> Printing_start_new_print(c)
           [] c.state = "Paused" -> Paused_start_new_print(c, pub_ok),
   ret |-> TRUE]

\* BambuVirtualPrinter._pause_print (M25): no state overrides
\* APrinterState.pause_print, which only logs
pause_print(c) == [c |-> c, ret |-> TRUE]

\* BambuVirtualPrinter._cancel_print (M524, and M26 S0): only PausedState
\* overrides APrinterState.cancel_print
cancel_print(c, pub_ok) ==
  [c |-> remove_project_selection(
           IF c.state = "Paused" THEN Paused_cancel_print(c, pub_ok) ELSE c),
   ret |-> TRUE]

\* BambuVirtualPrinter._set_sd_position (M26)
set_sd_position(c, data, pub_ok) ==
  IF data = <<"M", "2", "6", " ", "S", "0">> THEN cancel_print(c, pub_ok)
  ELSE [c |-> send(c, "M26 disabled for Bambu"), ret |-> TRUE]

\* BambuVirtualPrinter._delete_project_file (M30)
delete_project_file(c, data) ==
  LET fields == SplitOnce(data)
      r == get_file_data(c, strip(fields[2]))
  IN IF Len(fields) < 2 THEN [c |-> Raise(c, "IndexError"), ret |-> FALSE]
     ELSE IF r.found # <<>> THEN [c |-> delete_file(r.c, r.found[1].path), ret |-> FALSE]
     ELSE [c |-> r.c, ret |-> TRUE]

\* re.search(r"S([0-9]+)", data).group(1): the digits of the first match, <<>>
\* for no match
SearchS(b) ==
  LET hits == {i \in 1..Len(b) : b[i] = "S" /\ i < Len(b) /\ IsDigit(b[i + 1])}
  IN IF hits = {} THEN <<>>
     ELSE LET i == CHOOSE k \in hits : \A j \in hits : k <= j
          IN DigitRun(b, i + 1)

\* BambuVirtualPrinter._report_sd_print_status (M27), with
\* start_continuous_status_report and stop_continuous_status_report
report_sd_print_status(c, data) ==
  IF SearchS(data) # <<>>
  THEN [c |-> [c EXCEPT !.reporter = DigitsValue(SearchS(data))], ret |-> FALSE]
  ELSE [c |-> report_print_job_status(c), ret |-> TRUE]

\* BambuVirtualPrinter._case_lights (M355)
case_lights(c, data, pub_ok) ==
  IF data = <<"M", "3", "5", "5", " ", "S", "1">>
  THEN [c |-> publish(c, "CHAMBER_LIGHT_ON"), ret |-> pub_ok]
  ELSE IF data = <<"M", "3", "5", "5", " ", "S", "0">>
  THEN [c |-> publish(c, "CHAMBER_LIGHT_OFF"), ret |-> pub_ok]
  ELSE [c |-> c, ret |-> FALSE]

\* BambuVirtualPrinter._update_project_file_list (M20)
update_project_file_list(c) == [c |-> update(c), ret |-> TRUE]

\* ------------------------------------------------------------ GCodeExecutor

\* the tokens of gcode_handlers and gcode_handlers_no_data after the class
\* body of BambuVirtualPrinter has run its decorators
gcode_handlers ==
  {"M23", "M26", "M27", "M30", "M105", "M155", "M117", "M118", "M220", "M355"}
gcode_handlers_no_data == {"M21", "M115", "M112", "M20", "M24", "M25", "M524"}

\* GCodeExecutor.execute, its except clause: an exception of the handler is
\* caught and the command reported as not handled
execute_result(r) ==
  IF r.c.raised # "" THEN [c |-> [r.c EXCEPT !.raised = ""], ret |-> FALSE] ELSE r

\* GCodeExecutor.execute: [c, ret].  A token that is not registered is
\* "ignored" and reported as handled; an exception of a handler is caught and
\* reported as not handled.
execute(c, gcode, data, pub_ok) ==
  execute_result(
    CASE gcode \notin (gcode_handlers \cup gcode_handlers_no_data) ->
           [c |-> c, ret |-> TRUE]
      [] gcode = "M20" -> update_project_file_list(c)
      [] gcode = "M21" -> sd_status(c)
      [] gcode = "M23" -> select_sd_file(c, data)
      [] gcode = "M24" -> start_resume_sd_print(c, pub_ok)
      [] gcode = "M25" -> pause_print(c)
      [] gcode = "M26" -> set_sd_position(c, data, pub_ok)
      [] gcode = "M27" -> report_sd_print_status(c, data)
      [] gcode = "M30" -> delete_project_file(c, data)
      [] gcode = "M355" -> case_lights(c, data, pub_ok)
      [] gcode = "M524" -> cancel_print(c, pub_ok))

\* BambuVirtualPrinter._process_gcode_serial_command after execute has
\* returned r: the acknowledgement, or the forwarding to the remote controller
send_response(r, full_command, pub_ok) ==
  IF r.c.lastN = Unset THEN Raise(r.c, "AttributeError")
  ELSE IF r.ret THEN send(r.c, "ok " \o IntStr(r.c.lastN + 1) \o "\n")
  ELSE IF r.c.conn /\ pub_ok
  THEN send(publish(r.c, "gcode_line " \o to_unicode(full_command) \o "\n"),
            "ok " \o IntStr(r.c.lastN + 1) \o "\n")
  ELSE IF r.c.conn
  THEN publish(r.c, "gcode_line " \o to_unicode(full_command) \o "\n")
  ELSE r.c

\* BambuVirtualPrinter._process_gcode_serial_command(gcode, full_command)
process_gcode_serial_command(c, gcode, full_command, pub_ok) ==
  send_response(execute(c, to_unicode(gcode), full_command, pub_ok), full_command, pub_ok)

\* the parameters _process_gcode_serial_command declares after self
CallbackParams == <<"gcode", "full_command">>

\* PrinterSerialIO._handle_command_callback(*args): the bound method
\* BambuVirtualPrinter._process_gcode_serial_command; a call with another number
\* of arguments raises TypeError
handle_command_callback(c, args, pub_ok) ==
  IF Len(args) = Len(CallbackParams)
  THEN process_gcode_serial_command([c EXCEPT !.called = TRUE], args[1], args[2], pub_ok)
  ELSE Raise([c EXCEPT !.called = TRUE], "TypeError")

\* PrinterSerialIO._process_input_gcode_line
process_input_gcode_line(c, line, pub_ok) ==
  LET star == rfind(line, "*")
      has_star == star >= 0
      checksum == ParseInt(SubSeq(line, star + 2, Len(line)))
      data1 == IF has_star THEN SubSeq(line, 1, star) ELSE line
      c1 == IF has_star THEN [c EXCEPT !.current_line = @ + 1] ELSE c
      number == SearchLineNumber(data1)
      linenumber == DigitsValue(number)
      starts_n == data1 # <<>> /\ data1[1] = "N"
      fields == SplitOnce(data1)
      c2 == IF starts_n THEN [c1 EXCEPT !.lastN = linenumber] ELSE c1
      data2 == IF starts_n THEN strip(fields[2]) ELSE data1
      command == strip(data2 \o <<"\n">>)
      command_match == command_regex(command)
  IN IF has_star /\ ~checksum.ok THEN Raise(c, "ValueError")
     ELSE IF has_star /\ c.current_line = Unset THEN Raise(c, "AttributeError")
     ELSE IF has_star /\ checksum.val # calculate_checksum(data1)
     THEN triggerResend(c, <<c.current_line + 1>>, <<>>, <<>>)
     ELSE IF ~has_star /\ forceChecksum THEN send(c, format_error("checksum_missing", <<>>))
     ELSE IF starts_n /\ Contains(data1, <<"M", "1", "1", "0">>)
     THEN IF number = <<>> THEN Raise(c1, "AttributeError")
          ELSE sendOk([c1 EXCEPT !.lastN = linenumber, !.current_line = linenumber])
     ELSE IF starts_n /\ number = <<>> THEN Raise(c1, "AttributeError")
     ELSE IF starts_n /\ c1.lastN = Unset THEN Raise(c1, "AttributeError")
     ELSE IF starts_n /\ linenumber # c1.lastN + 1
     THEN triggerResend(c1, <<>>, <<linenumber>>, <<>>)
     ELSE IF starts_n /\ Len(fields) < 2 THEN Raise(c2, "IndexError")
     ELSE IF command_match = <<>> THEN c2
     ELSE handle_command_callback(
            c2, <<command_match[1].letter, command_match[1].gcode, command>>, pub_ok)

\* ----------------------------------------------------- lifecycle states

\* printing_state.py does not compile: set_print_job_info (lines 43-59), which
\* nothing calls, ends in an unfinished assignment.  The methods of
\* PrintingState that are well formed are modelled as written.

\* state_init with a PrintingState.init that creates the print job of the
\* print it enters, nothing else being changed
state_init_creating_job(st) ==
  CASE st = "Idle" ->
         [out |-> <<>>, enq |-> <<>>, printing |-> printingLock, paused |-> pausedLock,
          report |-> paused_repeated_report, job |-> current_print_job]
    [] st = "Printing" ->
         [out |-> <<>>, enq |-> <<>>, printing |-> TRUE, paused |-> pausedLock,
          report |-> paused_repeated_report,
          job |-> <<[file_info |-> [path |-> NameA], progress |-> 0]>>]
    [] st = "Paused" ->
         [out |-> <<"// action:paused">>,
          enq |-> IF current_print_job = <<>> THEN <<"Printing">> ELSE <<>>,
          printing |-> printingLock, paused |-> TRUE,
          report |-> IF current_print_job = <<>> THEN paused_repeated_report ELSE TRUE,
          job |-> current_print_job]

\* APrinterState.init / PrintingState.init / PausedState.init (with
\* _sendPaused), run by the worker: [out, enq] and the flags
state_init(st) ==
  CASE st = "Idle" ->
         [out |-> <<>>, enq |-> <<>>, printing |-> printingLock, paused |-> pausedLock,
          report |-> paused_repeated_report, job |-> current_print_job]
    [] st = "Printing" ->
         [out |-> <<>>, enq |-> <<>>, printing |-> TRUE, paused |-> pausedLock,
          report |-> paused_repeated_report, job |-> current_print_job]
    [] st = "Paused" ->
         [out |-> <<"// action:paused">>,
          enq |-> IF current_print_job = <<>> THEN <<"Printing">> ELSE <<>>,
          printing |-> printingLock, paused |-> TRUE,
          report |-> IF current_print_job = <<>> THEN paused_repeated_report ELSE TRUE,
          job |-> current_print_job]

\* state_finalize with a PausedState.finalize that leaves _pausedLock set
state_finalize_keeping_paused(st) ==
  CASE st = "Idle" ->
         [printing |-> printingLock, paused |-> pausedLock, report |-> paused_repeated_report]
    [] st = "Printing" ->
         [printing |-> FALSE, paused |-> pausedLock, report |-> paused_repeated_report]
    [] st = "Paused" ->
         [printing |-> printingLock, paused |-> pausedLock,
          report |-> paused_repeated_report]

\* APrinterState.finalize / PrintingState.finalize / PausedState.finalize:
\* the flags after it
state_finalize(st) ==
  CASE st = "Idle" ->
         [printing |-> printingLock, paused |-> pausedLock, report |-> paused_repeated_report]
    [] st = "Printing" ->
         [printing |-> FALSE, paused |-> pausedLock, report |-> paused_repeated_report]
    [] st = "Paused" ->
         [printing |-> printingLock, paused |-> FALSE,
          report |-> IF pausedLock THEN FALSE ELSE paused_repeated_report]

\* the job states of a telemetry push: the six the mapping knows and one other
JobStates == {"IDLE", "FINISH", "FAILED", "RUNNING", "PREPARE", "PAUSE", "SLICING"}

\* the state _update_printer_info requests for a job state; <<>> for none
StateFor(print_job_state) ==
  IF print_job_state \in {"IDLE", "FINISH", "FAILED"} THEN <<"Idle">>
  ELSE IF print_job_state \in {"RUNNING", "PREPARE"} THEN <<"Printing">>
  ELSE IF print_job_state = "PAUSE" THEN <<"Paused">>
  ELSE <<>>

\* ------------------------------------------------------------------ traffic

\* a numbered line with its checksum, as the host frames it; off is added to
\* the checksum to corrupt it
Framed(body, off) == body \o <<"*">> \o IntBytes(calculate_checksum(body) + off) \o <<"\n">>

LineM110 == <<"N", "0", " ", "M", "1", "1", "0", "\n">>
LineN1 == <<"N", "1", " ", "M", "1", "0", "5">>

\* what the host writes in one write() call
Payloads ==
  { <<"M", "2", "0", "\n">>,
    <<"M", "2">>,
    <<"0", "\n">>,
    <<"M", "2", "3", " ">> \o NameA \o <<"\n">>,
    <<"M", "3", "0", " ", "z", "\n">>,
    <<"M", "2", "4", "\n">>,
    <<"G", "2", "8", "\n", "G", "1", " ", "X", "1", "\n">>,
    LineM110 \o Framed(LineN1, 1) \o Framed(LineN1, 0) }

\* the writes of a host that selects a file and starts it
PrintPayloads ==
  { <<"M", "2", "3", " ">> \o NameA \o <<"\n">>,
    <<"M", "2", "4", "\n">> }

\* the writes of a host that pauses, resumes and cancels a print
ControlPayloads ==
  { <<"M", "2", "4", "\n">>,
    <<"M", "2", "5", "\n">>,
    <<"M", "2", "6", " ", "S", "0", "\n">> }

\* a chunk without a newline that is longer than the inbound buffer
LongChunk == [i \in 1..(rx_buffer_size + 6) |-> "x"]

\* what the host writes when it overruns the inbound buffer
WritePayloads == { <<"M", "2", "0", "\n">>, LongChunk }

\* the newline-terminated lines of a byte string, in order
RECURSIVE CompleteLines(_)
CompleteLines(b) ==
  LET pos == find(b, "\n") + 1
  IN IF pos = 0 THEN <<>>
     ELSE <<SubSeq(b, 1, pos)>> \o CompleteLines(SubSeq(b, pos + 1, Len(b)))

\* ------------------------------------------------------------------ actions

Init ==
  /\ input_bytes = <<>>
  /\ rx_size = 0
  /\ rx_unfinished = 0
  /\ serial_running = TRUE
  /\ lastN = Unset
  /\ current_line = Unset
  /\ received_lines = 0
  /\ reader = [pc |-> "wait", data |-> <<>>, buffer |-> <<>>, line |-> <<>>]
  /\ forceChecksum \in BOOLEAN
  /\ current_state = "Idle"
  /\ state_change_queue = <<>>
  /\ sc_unfinished = 0
  /\ running = TRUE
  /\ current_print_job = <<>>
  /\ selected_project_file = <<>>
  /\ file_alias_cache = <<>>
  /\ file_data_cache = <<>>
  /\ printingLock = FALSE
  /\ pausedLock = FALSE
  /\ paused_repeated_report = FALSE
  /\ print_status_reporter = 0
  /\ connected \in BOOLEAN
  /\ published = <<>>
  /\ remote_files = RemoteFilesInit
  \* _create_client_connection has sent "ok"; the worker thread is started
  \* and has not run yet
  /\ worker = [pc |-> "start", next_state |-> ""]
  /\ output_bytes = <<"ok">>
  /\ writes = 0
  /\ pushes = 0
  /\ written = <<>>
  /\ log = <<>>
  /\ lastPush = ""
  /\ expected = "Idle"
  /\ prev_state = "Idle"
  /\ last_write = [data |-> <<>>, u |-> 0, appended |-> <<>>, ret |-> 0, raised |-> "",
                   free |-> rx_buffer_size, open |-> TRUE, after_close |-> FALSE]
  /\ read_after_close = "none"
  /\ write_call = <<>>
  /\ caller = [pc |-> "idle", mark |-> 0, seen |-> 0]
  /\ disconnect_requested = FALSE
  /\ refresher = [pc |-> "idle", files |-> <<>>, n |-> 0]
  /\ lookups = 0
  /\ ams_data = <<>>
  /\ telemetry = [temp |-> 0, bedTemp |-> 0]
  /\ push_raised = ""
  /\ last_mapping = [metadata |-> <<>>, ams |-> <<>>, mapping |-> <<>>]
  /\ last_lookup = [op |-> "none", arg |-> <<>>, alias |-> <<>>, data |-> <<>>,
                    updates |-> 0, found |-> <<>>]

\* Write with a put that never cuts the item to the free space (partial=False)
Write_whole_item(data) ==
  /\ writes < MaxWrites
  /\ write_call = <<>>
  /\ writes' = writes + 1
  /\ LET space_left == rx_buffer_size - rx_size
         item == data
     IN IF ~serial_running
        THEN /\ last_write' = [data |-> data, u |-> rx_size, appended |-> <<>>, ret |-> 0,
                               raised |-> "", free |-> space_left, open |-> FALSE,
                               after_close |-> (caller.pc = "closed")]
             /\ UNCHANGED <<input_bytes, rx_size, rx_unfinished, written, write_call>>
        ELSE IF Len(item) <= rx_buffer_size - rx_size
        THEN /\ input_bytes' = Append(input_bytes, item)
             /\ rx_size' = rx_size + Len(item)
             /\ rx_unfinished' = rx_unfinished + 1
             /\ written' = written \o item
             /\ last_write' = [data |-> data, u |-> rx_size, appended |-> item,
                               ret |-> Len(item), raised |-> "",
                               free |-> space_left - Len(item), open |-> TRUE,
                               after_close |-> FALSE]
             /\ UNCHANGED write_call
        ELSE /\ write_call' = <<[data |-> data, item |-> item, u |-> rx_size]>>
             /\ UNCHANGED <<input_bytes, rx_size, rx_unfinished, written, last_write>>
  /\ UNCHANGED <<output_bytes, serial_running, lastN, current_line, received_lines,
                 reader, forceChecksum, printer_vars, env_vars, pushes, log, lastPush,
                 expected, prev_state, read_after_close, caller, disconnect_requested, side_vars>>

\* PrinterSerialIO.write(data) over CharCountingQueue.put(data, timeout,
\* partial=True): the call returns at once, or is left waiting in put
Write(data) ==
  /\ writes < MaxWrites
  /\ write_call = <<>>
  /\ writes' = writes + 1
  /\ LET space_left == rx_buffer_size - rx_size
         item == IF Len(data) > space_left /\ space_left # 0
                 THEN SubSeq(data, 1, space_left) ELSE data
     IN IF ~serial_running
        THEN /\ last_write' = [data |-> data, u |-> rx_size, appended |-> <<>>, ret |-> 0,
                               raised |-> "", free |-> space_left, open |-> FALSE,
                               after_close |-> (caller.pc = "closed")]
             /\ UNCHANGED <<input_bytes, rx_size, rx_unfinished, written, write_call>>
        ELSE IF Len(item) <= rx_buffer_size - rx_size
        THEN /\ input_bytes' = Append(input_bytes, item)
             /\ rx_size' = rx_size + Len(item)
             /\ rx_unfinished' = rx_unfinished + 1
             /\ written' = written \o item
             /\ last_write' = [data |-> data, u |-> rx_size, appended |-> item,
                               ret |-> Len(item), raised |-> "",
                               free |-> space_left - Len(item), open |-> TRUE,
                               after_close |-> FALSE]
             /\ UNCHANGED write_call
        ELSE /\ write_call' = <<[data |-> data, item |-> item, u |-> rx_size]>>
             /\ UNCHANGED <<input_bytes, rx_size, rx_unfinished, written, last_write>>
  /\ UNCHANGED <<output_bytes, serial_running, lastN, current_line, received_lines,
                 reader, forceChecksum, printer_vars, env_vars, pushes, log, lastPush,
                 expected, prev_state, read_after_close, caller, disconnect_requested, side_vars>>

\* CharCountingQueue.put: the waiting write finds that its item fits
WriteWake ==
  /\ write_call # <<>>
  /\ Len(write_call[1].item) <= rx_buffer_size - rx_size
  /\ input_bytes' = Append(input_bytes, write_call[1].item)
  /\ rx_size' = rx_size + Len(write_call[1].item)
  /\ rx_unfinished' = rx_unfinished + 1
  /\ written' = written \o write_call[1].item
  /\ last_write' = [data |-> write_call[1].data, u |-> write_call[1].u,
                    appended |-> write_call[1].item, ret |-> Len(write_call[1].item),
                    raised |-> "",
                    free |-> rx_buffer_size - rx_size - Len(write_call[1].item),
                    open |-> TRUE, after_close |-> FALSE]
  /\ write_call' = <<>>
  /\ UNCHANGED <<output_bytes, serial_running, lastN, current_line, received_lines,
                 reader, forceChecksum, printer_vars, env_vars, writes, pushes, log,
                 lastPush, expected, prev_state, read_after_close, caller,
                 disconnect_requested, side_vars>>

\* CharCountingQueue.put: the deadline passes and the item still does not
\* fit: queue.Full, which write() turns into SerialTimeoutException
WriteTimeout ==
  /\ write_call # <<>>
  /\ Len(write_call[1].item) > rx_buffer_size - rx_size
  /\ last_write' = [data |-> write_call[1].data, u |-> write_call[1].u,
                    appended |-> <<>>, ret |-> 0, raised |-> "SerialTimeoutException",
                    free |-> rx_buffer_size - rx_size, open |-> TRUE,
                    after_close |-> FALSE]
  /\ write_call' = <<>>
  /\ UNCHANGED <<serial_vars, printer_vars, env_vars, hist_vars, prev_state,
                 read_after_close, caller, disconnect_requested, side_vars>>

\* PrinterSerialIO.readline, a line being queued
ReadLine ==
  /\ output_bytes # <<>>
  /\ output_bytes' = Tail(output_bytes)
  /\ read_after_close' = IF caller.pc = "closed" THEN "line" ELSE read_after_close
  /\ UNCHANGED <<input_bytes, rx_size, rx_unfinished, serial_running, lastN,
                 current_line, received_lines, reader, forceChecksum, printer_vars,
                 env_vars, hist_vars, prev_state, last_write, call_vars, side_vars>>

\* PrinterSerialIO.readline after close(), no line being queued: the get
\* times out and b"" is returned
ReadLineEmpty ==
  /\ output_bytes = <<>>
  /\ caller.pc = "closed"
  /\ read_after_close' = "empty"
  /\ UNCHANGED <<serial_vars, printer_vars, env_vars, hist_vars, prev_state,
                 last_write, call_vars, side_vars>>

\* PrinterSerialIO.run, at "while self._running": the loop ends when the
\* flag is cleared; otherwise one get() that returns a chunk, task_done(),
\* and the first _read_next_line_buffered.  task_done() that brings
\* unfinished_tasks to 0 notifies all_tasks_done, which wakes the thread
\* waiting in PrinterSerialIO.flush
ReaderGet ==
  /\ reader.pc = "wait"
  /\ IF ~serial_running
     THEN /\ reader' = [reader EXCEPT !.pc = "stopped"]
          /\ UNCHANGED <<input_bytes, rx_size, rx_unfinished, caller>>
     ELSE /\ input_bytes # <<>>
          /\ LET data == Head(input_bytes)
                 nxt == read_next_line_buffered(data, reader.buffer)
             IN /\ input_bytes' = Tail(input_bytes)
                /\ rx_size' = rx_size - Len(data)
                /\ rx_unfinished' = rx_unfinished - 1
                /\ reader' = [pc |-> "line", data |-> data, buffer |-> nxt[2],
                              line |-> nxt[1]]
          /\ caller' = IF rx_unfinished - 1 = 0 /\ caller.pc = "flush_serial"
                       THEN [caller EXCEPT !.pc = "flush_join"]
                       ELSE IF rx_unfinished - 1 = 0 /\ caller.pc = "close_flush"
                       THEN [caller EXCEPT !.pc = "close_stop"]
                       ELSE caller
  /\ UNCHANGED <<output_bytes, serial_running, lastN, current_line, received_lines,
                 forceChecksum, printer_vars, env_vars, hist_vars, ghost_vars,
                 write_call, disconnect_requested, side_vars>>

\* PrinterSerialIO.run: one turn of "while line is not None": the line is
\* processed and the next one read; an exception ends the thread.
\* _triggerResend waits for _incoming_lock, which a write() left waiting holds
ReaderProcess ==
  /\ reader.pc = "line"
  /\ Len(log) < MaxLines
  /\ \E pub_ok \in BOOLEAN :
     \E r \in {process_input_gcode_line(Ctx, reader.line, pub_ok)} :
     \E nxt \in {read_next_line_buffered(reader.data, reader.buffer)} :
          /\ ~(r.lock /\ write_call # <<>>)
          /\ received_lines' = received_lines + 1
          /\ output_bytes' = output_bytes \o r.out
          /\ lastN' = r.lastN
          /\ current_line' = r.current_line
          /\ published' = published \o r.pub
          /\ state_change_queue' = state_change_queue \o r.enq
          /\ sc_unfinished' = sc_unfinished + Len(r.enq)
          /\ selected_project_file' = r.sel
          /\ current_print_job' = r.job
          /\ print_status_reporter' = r.reporter
          /\ file_alias_cache' = r.alias
          /\ file_data_cache' = r.data
          /\ remote_files' = r.remote
          /\ reader' = IF r.raised # "" THEN [reader EXCEPT !.pc = "dead"]
                       ELSE [reader EXCEPT !.buffer = nxt[2], !.line = nxt[1]]
          /\ log' = Append(log, [line |-> reader.line, raised |-> r.raised, out |-> r.out,
                                 pub |-> r.pub, state |-> current_state,
                                 sel_before |-> selected_project_file, sel_after |-> r.sel,
                                 job_before |-> current_print_job, job_after |-> r.job,
                                 lastN |-> r.lastN, conn |-> connected, enq |-> r.enq,
                                 lastN_before |-> lastN, current_line |-> r.current_line,
                                 current_line_before |-> current_line,
                                 called |-> r.called, pub_ok |-> pub_ok])
          /\ expected' = IF r.enq # <<>> THEN "any" ELSE expected
  /\ UNCHANGED <<input_bytes, rx_size, rx_unfinished, serial_running, forceChecksum,
                 current_state, worker, running, printingLock, pausedLock,
                 paused_repeated_report, connected, writes, pushes, written, lastPush,
                 ghost_vars, call_vars, side_vars>>

\* the emergency stop as the host writes it
LineM112 == <<"M", "1", "1", "2", "\n">>

\* BambuVirtualPrinter._shutdown, the handler of M112, run by the reader
\* thread for a line that reaches the command callback, the callback taken
\* with the two arguments it declares: the flag of the state worker is set to
\* True, a connected client is disconnected, the message is sent, and
\* PrinterSerialIO.close() begins with flush(), which waits on all_tasks_done.
\* The condition is notified by task_done() alone, which only this thread
\* calls: the thread stays in the wait, before "_running = False"
ReaderShutdown ==
  /\ reader.pc = "line"
  /\ reader.line = LineM112
  /\ process_input_gcode_line(Ctx, reader.line, FALSE).called
  /\ received_lines' = received_lines + 1
  /\ running' = TRUE
  /\ disconnect_requested' = (disconnect_requested \/ connected)
  /\ output_bytes' = Append(output_bytes, "echo:EMERGENCY SHUTDOWN DETECTED. KILLED.")
  /\ reader' = [reader EXCEPT !.pc = "shutdown_flush"]
  /\ UNCHANGED <<input_bytes, rx_size, rx_unfinished, serial_running, lastN,
                 current_line, forceChecksum, current_state, state_change_queue,
                 sc_unfinished, worker, current_print_job, selected_project_file,
                 file_alias_cache, file_data_cache, printingLock, pausedLock,
                 paused_repeated_report, print_status_reporter, env_vars, hist_vars,
                 ghost_vars, write_call, caller, side_vars>>

\* BambuVirtualPrinter._printer_worker: its first statement
WorkerStart ==
  /\ worker.pc = "start"
  /\ worker' = [worker EXCEPT !.pc = "loop"]
  /\ output_bytes' = Append(output_bytes, "Printer connection complete")
  /\ UNCHANGED <<input_bytes, rx_size, rx_unfinished, serial_running, lastN,
                 current_line, received_lines, reader, forceChecksum, current_state,
                 state_change_queue, sc_unfinished, running, current_print_job,
                 selected_project_file, file_alias_cache, file_data_cache, printingLock,
                 pausedLock, paused_repeated_report, print_status_reporter,
                 env_vars, hist_vars, ghost_vars,
                 call_vars, side_vars>>

\* BambuVirtualPrinter._printer_worker: a get() that returns a request
WorkerGet ==
  /\ worker.pc = "loop"
  /\ running
  /\ state_change_queue # <<>>
  /\ worker' = [pc |-> "got", next_state |-> Head(state_change_queue)]
  /\ state_change_queue' = Tail(state_change_queue)
  /\ UNCHANGED <<serial_vars, current_state, sc_unfinished, running, current_print_job,
                 selected_project_file, file_alias_cache, file_data_cache, printingLock,
                 pausedLock, paused_repeated_report, print_status_reporter,
                 env_vars, hist_vars, ghost_vars,
                 call_vars, side_vars>>

\* WorkerChange with a _trigger_change_state that has no test for a request
\* naming the current state: it finalizes and initializes again
WorkerChange_without_same_state_test ==
  /\ worker.pc = "got"
  /\ worker' = [worker EXCEPT !.pc = IF current_state = worker.next_state
                                    THEN "returned" ELSE "changed"]
  /\ LET fin == state_finalize(current_state)
         ini == state_init(worker.next_state)
     IN /\ current_state' = worker.next_state
        /\ prev_state' = current_state
        /\ printingLock' =
             (IF worker.next_state = "Printing" THEN ini.printing ELSE fin.printing)
        /\ pausedLock' =
             (IF worker.next_state = "Paused" THEN ini.paused ELSE fin.paused)
        /\ paused_repeated_report' =
             (IF worker.next_state = "Paused" THEN ini.report ELSE fin.report)
        /\ current_print_job' = ini.job
        /\ output_bytes' = output_bytes \o ini.out
        /\ state_change_queue' = state_change_queue \o ini.enq
        /\ sc_unfinished' = sc_unfinished + Len(ini.enq)
  /\ UNCHANGED <<input_bytes, rx_size, rx_unfinished, serial_running, lastN,
                 current_line, received_lines, reader, forceChecksum, running,
                 selected_project_file, file_alias_cache, file_data_cache,
                 print_status_reporter, env_vars, hist_vars, last_write,
                 read_after_close, call_vars, side_vars>>

\* WorkerChange with a _trigger_change_state that does not finalize the state
\* it leaves
WorkerChange_without_finalize ==
  /\ worker.pc = "got"
  /\ worker' = [worker EXCEPT !.pc = IF current_state = worker.next_state
                                    THEN "returned" ELSE "changed"]
  /\ IF current_state = worker.next_state
     THEN UNCHANGED <<current_state, printingLock, pausedLock, paused_repeated_report,
                      output_bytes, state_change_queue, sc_unfinished,
                      current_print_job, prev_state>>
     ELSE LET ini == state_init(worker.next_state)
          IN /\ current_state' = worker.next_state
             /\ prev_state' = current_state
             /\ printingLock' =
                  (IF worker.next_state = "Printing" THEN ini.printing ELSE printingLock)
             /\ pausedLock' =
                  (IF worker.next_state = "Paused" THEN ini.paused ELSE pausedLock)
             /\ paused_repeated_report' =
                  (IF worker.next_state = "Paused" THEN ini.report ELSE paused_repeated_report)
             /\ current_print_job' = ini.job
             /\ output_bytes' = output_bytes \o ini.out
             /\ state_change_queue' = state_change_queue \o ini.enq
             /\ sc_unfinished' = sc_unfinished + Len(ini.enq)
  /\ UNCHANGED <<input_bytes, rx_size, rx_unfinished, serial_running, lastN,
                 current_line, received_lines, reader, forceChecksum, running,
                 selected_project_file, file_alias_cache, file_data_cache,
                 print_status_reporter, env_vars, hist_vars, last_write,
                 read_after_close, call_vars, side_vars>>

\* BambuVirtualPrinter._trigger_change_state(next_state)
WorkerChange ==
  /\ worker.pc = "got"
  /\ worker' = [worker EXCEPT !.pc = IF current_state = worker.next_state
                                    THEN "returned" ELSE "changed"]
  /\ IF current_state = worker.next_state
     THEN UNCHANGED <<current_state, printingLock, pausedLock, paused_repeated_report,
                      output_bytes, state_change_queue, sc_unfinished,
                      current_print_job, prev_state>>
     ELSE LET fin == state_finalize(current_state)
              ini == state_init(worker.next_state)
          IN /\ current_state' = worker.next_state
             /\ prev_state' = current_state
             /\ printingLock' =
                  (IF worker.next_state = "Printing" THEN ini.printing ELSE fin.printing)
             /\ pausedLock' =
                  (IF worker.next_state = "Paused" THEN ini.paused ELSE fin.paused)
             /\ paused_repeated_report' =
                  (IF worker.next_state = "Paused" THEN ini.report ELSE fin.report)
             /\ current_print_job' = ini.job
             /\ output_bytes' = output_bytes \o ini.out
             /\ state_change_queue' = state_change_queue \o ini.enq
             /\ sc_unfinished' = sc_unfinished + Len(ini.enq)
  /\ UNCHANGED <<input_bytes, rx_size, rx_unfinished, serial_running, lastN,
                 current_line, received_lines, reader, forceChecksum, running,
                 selected_project_file, file_alias_cache, file_data_cache,
                 print_status_reporter, env_vars, hist_vars, last_write,
                 read_after_close, call_vars, side_vars>>

\* BambuVirtualPrinter._printer_worker: task_done() after the change
WorkerTaskDone ==
  /\ worker.pc \in {"changed", "returned"}
  /\ worker' = [pc |-> "loop", next_state |-> ""]
  /\ sc_unfinished' = sc_unfinished - 1
  /\ UNCHANGED <<serial_vars, current_state, state_change_queue, running,
                 current_print_job, selected_project_file, file_alias_cache,
                 file_data_cache, printingLock, pausedLock, paused_repeated_report,
                 print_status_reporter,
                 env_vars, hist_vars, ghost_vars, call_vars, side_vars>>

\* BambuVirtualPrinter._printer_worker: "while self._running" finds the flag
\* cleared; the current state is finalized and the thread ends
WorkerExit ==
  /\ worker.pc = "loop"
  /\ ~running
  /\ worker' = [worker EXCEPT !.pc = "done"]
  /\ printingLock' = state_finalize(current_state).printing
  /\ pausedLock' = state_finalize(current_state).paused
  /\ paused_repeated_report' = state_finalize(current_state).report
  /\ UNCHANGED <<serial_vars, current_state, state_change_queue, sc_unfinished, running,
                 current_print_job, selected_project_file, file_alias_cache,
                 file_data_cache, print_status_reporter, env_vars, hist_vars,
                 ghost_vars, call_vars, side_vars>>

\* BambuVirtualPrinter._process_gcode_serial_command(gcode, full_command),
\* called with the two arguments it declares; an exception goes to the caller
Dispatch(gcode, full_command) ==
  /\ Len(log) < MaxLines
  /\ \E pub_ok \in BOOLEAN :
     \E r \in {process_gcode_serial_command([Ctx EXCEPT !.called = TRUE], gcode,
                                            full_command, pub_ok)} :
          /\ output_bytes' = output_bytes \o r.out
          /\ lastN' = r.lastN
          /\ current_line' = r.current_line
          /\ published' = published \o r.pub
          /\ state_change_queue' = state_change_queue \o r.enq
          /\ sc_unfinished' = sc_unfinished + Len(r.enq)
          /\ selected_project_file' = r.sel
          /\ current_print_job' = r.job
          /\ print_status_reporter' = r.reporter
          /\ file_alias_cache' = r.alias
          /\ file_data_cache' = r.data
          /\ remote_files' = r.remote
          /\ log' = Append(log, [line |-> full_command, raised |-> r.raised, out |-> r.out,
                                 pub |-> r.pub, state |-> current_state,
                                 sel_before |-> selected_project_file, sel_after |-> r.sel,
                                 job_before |-> current_print_job, job_after |-> r.job,
                                 lastN |-> r.lastN, conn |-> connected, enq |-> r.enq,
                                 lastN_before |-> lastN, current_line |-> r.current_line,
                                 current_line_before |-> current_line,
                                 called |-> r.called, pub_ok |-> pub_ok])
          /\ expected' = IF r.enq # <<>> THEN "any" ELSE expected
  /\ UNCHANGED <<input_bytes, rx_size, rx_unfinished, serial_running, forceChecksum,
                 received_lines, reader, current_state, worker, running, printingLock,
                 pausedLock, paused_repeated_report, connected, writes, pushes, written,
                 lastPush, ghost_vars, call_vars, side_vars>>

\* the remote file service: a file is stored on the SD card of the printer
Upload(f) ==
  /\ Len(remote_files) < MaxFiles
  /\ \A i \in 1..Len(remote_files) :
       remote_files[i].folder \o remote_files[i].name # f.folder \o f.name
  /\ remote_files' = Append(remote_files, f)
  /\ UNCHANGED <<serial_vars, printer_vars, connected, published, hist_vars, ghost_vars,
                 call_vars, side_vars>>

\* the suffixes a lookup by stem allows (PrintingState.set_print_job_info)
AllowedSuffixes == { <<".", "3", "m", "f">>, <<".", "g", "c", "o", "d", "e", ".", "3", "m", "f">> }

\* the three lookups of CachedFileView, by the name of the method
lookup(c, op, arg) ==
  CASE op = "get_file_data" -> get_file_data(c, arg)
    [] op = "get_file_by_stem" -> get_file_by_stem(c, arg, AllowedSuffixes)
    [] op = "get_file_data_cached" -> [c |-> c, found |-> get_file_data_cached(c, arg)]

\* a lookup in the catalog of project files, on the reader thread
Lookup(op, arg) ==
  /\ lookups < MaxLookups
  /\ lookups' = lookups + 1
  /\ \E r \in {lookup(Ctx, op, arg)} :
       /\ file_alias_cache' = r.c.alias
       /\ file_data_cache' = r.c.data
       /\ output_bytes' = output_bytes \o r.c.out
       /\ last_lookup' = [op |-> op, arg |-> arg, alias |-> file_alias_cache,
                          data |-> file_data_cache, updates |-> r.c.updates,
                          found |-> r.found]
  /\ UNCHANGED <<input_bytes, rx_size, rx_unfinished, serial_running, lastN,
                 current_line, received_lines, reader, forceChecksum, current_state,
                 state_change_queue, sc_unfinished, worker, running, current_print_job,
                 selected_project_file, printingLock, pausedLock,
                 paused_repeated_report, print_status_reporter, env_vars, hist_vars,
                 ghost_vars, call_vars, refresher, ams_data, telemetry,
                 push_raised, last_mapping>>

\* CachedFileView.update on a thread other than the reader: list_all_views
\* returns the listing of the remote file service
RefreshList ==
  /\ refresher.pc = "idle"
  /\ refresher.n < MaxRefreshes
  /\ refresher' = [pc |-> "listed", files |-> list_all_views(remote_files),
                   n |-> refresher.n + 1]
  /\ UNCHANGED <<serial_vars, printer_vars, env_vars, hist_vars, ghost_vars, call_vars, lookups,
                 last_lookup, ams_data, telemetry, push_raised,
                 last_mapping>>

\* CachedFileView._update_file_list_cache, its first statement: the alias map
\* is replaced
RefreshAlias ==
  /\ refresher.pc = "listed"
  /\ file_alias_cache' = AliasDict(refresher.files)
  /\ refresher' = [refresher EXCEPT !.pc = "alias"]
  /\ UNCHANGED <<serial_vars, current_state, state_change_queue, sc_unfinished, worker,
                 running, current_print_job, selected_project_file, file_data_cache,
                 printingLock, pausedLock, paused_repeated_report, print_status_reporter,
                 env_vars, hist_vars, ghost_vars, call_vars, lookups,
                 last_lookup, ams_data, telemetry, push_raised,
                 last_mapping>>

\* CachedFileView._update_file_list_cache, its second statement: the data map
\* is replaced; update then calls on_update, which sends the listing
RefreshData ==
  /\ refresher.pc = "alias"
  /\ file_data_cache' = DataDict(refresher.files)
  /\ output_bytes' = output_bytes \o
       list_cached_project_files([Ctx EXCEPT !.data = DataDict(refresher.files)]).out
  /\ refresher' = [refresher EXCEPT !.pc = "idle", !.files = <<>>]
  /\ UNCHANGED <<input_bytes, rx_size, rx_unfinished, serial_running, lastN,
                 current_line, received_lines, reader, forceChecksum, current_state,
                 state_change_queue, sc_unfinished, worker, running, current_print_job,
                 selected_project_file, file_alias_cache, printingLock, pausedLock,
                 paused_repeated_report, print_status_reporter, env_vars, hist_vars,
                 ghost_vars, call_vars, lookups,
                 last_lookup, ams_data, telemetry, push_raised,
                 last_mapping>>

\* BambuVirtualPrinter.flush is called: PrinterSerialIO.flush starts to wait
\* on all_tasks_done
FlushCall ==
  /\ caller.pc \in {"idle", "flushed"}
  /\ caller' = [caller EXCEPT !.pc = "flush_serial",
                              !.mark = Len(CompleteLines(written))]
  /\ UNCHANGED <<serial_vars, printer_vars, env_vars, hist_vars, ghost_vars,
                 write_call, disconnect_requested, side_vars>>

\* FlushReturn of a flush that ends with PrinterSerialIO.flush, without
\* _wait_for_state_change
FlushReturn_without_join ==
  /\ caller.pc = "flush_join"
  /\ caller' = [caller EXCEPT !.pc = "flushed", !.seen = pushes]
  /\ UNCHANGED <<serial_vars, printer_vars, env_vars, hist_vars, ghost_vars,
                 write_call, disconnect_requested, side_vars>>

\* BambuVirtualPrinter.flush: _wait_for_state_change, the join of the
\* state-change queue, returns, and flush with it
FlushReturn ==
  /\ caller.pc = "flush_join"
  /\ sc_unfinished = 0
  /\ caller' = [caller EXCEPT !.pc = "flushed", !.seen = pushes]
  /\ UNCHANGED <<serial_vars, printer_vars, env_vars, hist_vars, ghost_vars,
                 write_call, disconnect_requested, side_vars>>

\* BambuVirtualPrinter.close is called: disconnect() of a connected client,
\* change_state(idle), and PrinterSerialIO.close starts with flush()
CloseCall ==
  /\ caller.pc \in {"idle", "flushed"}
  /\ disconnect_requested' = (disconnect_requested \/ connected)
  /\ state_change_queue' = Append(state_change_queue, "Idle")
  /\ sc_unfinished' = sc_unfinished + 1
  /\ expected' = "any"
  /\ caller' = [caller EXCEPT !.pc = "close_flush"]
  /\ UNCHANGED <<serial_vars, current_state, worker, running, current_print_job,
                 selected_project_file, file_alias_cache, file_data_cache, printingLock,
                 pausedLock, paused_repeated_report, print_status_reporter,
                 env_vars, writes, pushes, written,
                 log, lastPush, ghost_vars, write_call,
                 side_vars>>

\* PrinterSerialIO.close after its flush(): _running = False
CloseStopReader ==
  /\ caller.pc = "close_stop"
  /\ serial_running' = FALSE
  /\ caller' = [caller EXCEPT !.pc = "close_join_reader"]
  /\ UNCHANGED <<input_bytes, rx_size, rx_unfinished, output_bytes, lastN,
                 current_line, received_lines, reader, forceChecksum, printer_vars,
                 env_vars, hist_vars, ghost_vars, write_call, disconnect_requested, side_vars>>

\* PrinterSerialIO.close: join() returns, the reader thread having ended;
\* BambuVirtualPrinter.stop: _running = False
CloseStopWorker ==
  /\ caller.pc = "close_join_reader"
  /\ reader.pc \in {"dead", "stopped"}
  /\ running' = FALSE
  /\ caller' = [caller EXCEPT !.pc = "close_join_worker"]
  /\ UNCHANGED <<serial_vars, current_state, state_change_queue, sc_unfinished, worker,
                 current_print_job, selected_project_file, file_alias_cache,
                 file_data_cache, printingLock, pausedLock, paused_repeated_report,
                 print_status_reporter,
                 env_vars, hist_vars, ghost_vars, write_call, disconnect_requested, side_vars>>

\* BambuVirtualPrinter.stop: _printer_thread.join() returns, and close with it
CloseReturn ==
  /\ caller.pc = "close_join_worker"
  /\ worker.pc = "done"
  /\ caller' = [caller EXCEPT !.pc = "closed"]
  /\ UNCHANGED <<serial_vars, printer_vars, env_vars, hist_vars, ghost_vars,
                 write_call, disconnect_requested, side_vars>>

\* str.lower() on the filament types in use
Lower(t) ==
  CASE t = "PLA" -> "pla"
    [] t = "PETG" -> "petg"
    [] OTHER -> t

\* IdleState.generate_ams_mapping, the test of one tray against a filament
tray_matches(tray, filament) ==
  /\ ~tray.empty
  /\ Lower(tray.type) = Lower(filament.type)
  /\ tray.idx # ""
  /\ tray.idx = filament.tray_info_idx

\* scan_trays that goes on after a match and keeps the last one
RECURSIVE scan_trays_keeping_last(_, _, _)
scan_trays_keeping_last(trays, slot_index, filament) ==
  IF slot_index >= Len(trays) THEN -1
  ELSE LET later == scan_trays_keeping_last(trays, slot_index + 1, filament)
       IN IF later # -1 THEN later
          ELSE IF tray_matches(trays[slot_index + 1], filament) THEN slot_index
          ELSE -1

\* IdleState.generate_ams_mapping, the loop over the trays of one unit from
\* slot_index on: the slot of the first match, -1 for none
RECURSIVE scan_trays(_, _, _)
scan_trays(trays, slot_index, filament) ==
  IF slot_index >= Len(trays) THEN -1
  ELSE IF tray_matches(trays[slot_index + 1], filament) THEN slot_index
  ELSE scan_trays(trays, slot_index + 1, filament)

\* IdleState.generate_ams_mapping, the loop over the units from
\* ams_unit_index on: the global id of the first match, -1 for none; a unit
\* without a list of trays is passed over
RECURSIVE scan_units(_, _, _)
scan_units(ams, ams_unit_index, filament) ==
  IF ams_unit_index >= Len(ams) THEN -1
  ELSE LET unit == ams[ams_unit_index + 1]
           slot == IF unit.has_tray THEN scan_trays(unit.tray, 0, filament) ELSE -1
       IN IF slot # -1 THEN ams_unit_index * TraysPerUnit + slot
          ELSE scan_units(ams, ams_unit_index + 1, filament)

\* IdleState.generate_ams_mapping(sliced_metadata_for_file, ams_data):
\* metadata is <<>> for None and <<filaments>> otherwise, ams is <<>> for
\* None or the empty list
generate_ams_mapping(metadata, ams) ==
  IF metadata = <<>> THEN <<>>
  ELSE LET sliced_filaments == metadata[1]
       IN IF sliced_filaments = <<>> THEN <<>>
          ELSE IF ams = <<>> THEN [i \in 1..Len(sliced_filaments) |-> -1]
          ELSE [i \in 1..Len(sliced_filaments) |->
                  IF Lower(sliced_filaments[i].type) = "" THEN -1
                  ELSE scan_units(ams, 0, sliced_filaments[i])]

\* a call of IdleState.generate_ams_mapping
GenerateMapping(metadata, ams) ==
  /\ last_mapping' = [metadata |-> metadata, ams |-> ams,
                      mapping |-> generate_ams_mapping(metadata, ams)]
  /\ UNCHANGED <<serial_vars, printer_vars, env_vars, hist_vars, ghost_vars, call_vars,
                 catalog_vars, ams_data, telemetry, push_raised>>

\* what a well-formed telemetry push carries besides the job state: the trays
\* of one AMS unit and the temperatures
GoodAms == <<"PLA">>
GoodTemperature == [temp |-> 210, bedTemp |-> 60]

\* device data that lacks a part: print_job, temperature and ams are <<>>
\* when get_device() holds None for them; hms_count is FALSE when the table
\* of HMS errors has no "Count"
MalformedDevices ==
  { [event |-> "event_printer_data_update", print_job |-> <<>>,
     temperature |-> <<GoodTemperature>>, ams |-> <<GoodAms>>, hms_count |-> TRUE],
    [event |-> "event_printer_data_update", print_job |-> <<"RUNNING">>,
     temperature |-> <<>>, ams |-> <<GoodAms>>, hms_count |-> TRUE],
    [event |-> "event_printer_data_update", print_job |-> <<"RUNNING">>,
     temperature |-> <<GoodTemperature>>, ams |-> <<>>, hms_count |-> TRUE],
    [event |-> "event_hms_errors", print_job |-> <<"RUNNING">>,
     temperature |-> <<GoodTemperature>>, ams |-> <<GoodAms>>, hms_count |-> FALSE] }

\* BambuVirtualPrinter._update_printer_info / _update_hms_errors on device
\* data dev, statement by statement: the exception that escapes, the AMS data
\* and temperatures stored by then, and the states requested
update_from_device(dev) ==
  IF dev.event = "event_hms_errors"
  THEN [raised |-> IF dev.hms_count THEN "" ELSE "KeyError",
        ams |-> ams_data, temps |-> telemetry, enq |-> <<>>]
  ELSE IF dev.print_job = <<>> \/ dev.ams = <<>>
  THEN [raised |-> "AttributeError", ams |-> ams_data, temps |-> telemetry, enq |-> <<>>]
  ELSE IF dev.temperature = <<>>
  THEN [raised |-> "AttributeError", ams |-> dev.ams[1], temps |-> telemetry, enq |-> <<>>]
  ELSE [raised |-> "", ams |-> dev.ams[1], temps |-> dev.temperature[1],
        enq |-> StateFor(dev.print_job[1])]

\* BambuVirtualPrinter.new_update with device data that lacks a part
PushMalformed(dev) ==
  /\ pushes < MaxPushes
  /\ pushes' = pushes + 1
  /\ \E r \in {update_from_device(dev)} :
       /\ push_raised' = r.raised
       /\ ams_data' = r.ams
       /\ telemetry' = r.temps
       /\ state_change_queue' = state_change_queue \o r.enq
       /\ sc_unfinished' = sc_unfinished + Len(r.enq)
  /\ lastPush' = "malformed"
  /\ UNCHANGED <<serial_vars, current_state, worker, running, current_print_job,
                 selected_project_file, file_alias_cache, file_data_cache, printingLock,
                 pausedLock, paused_repeated_report, print_status_reporter,
                 env_vars, writes, written, log, expected,
                 ghost_vars, call_vars, catalog_vars, last_mapping>>

\* Push with an _update_printer_info that makes the requested state current
\* itself, on the thread of the telemetry callback
Push_applying_state(print_job_state) ==
  /\ pushes < MaxPushes
  /\ pushes' = pushes + 1
  /\ lastPush' = print_job_state
  /\ current_state' = IF StateFor(print_job_state) = <<>> THEN current_state
                      ELSE StateFor(print_job_state)[1]
  /\ expected' = IF StateFor(print_job_state) = <<>> THEN expected
                 ELSE StateFor(print_job_state)[1]
  /\ UNCHANGED <<serial_vars, state_change_queue, sc_unfinished, worker, running,
                 current_print_job, selected_project_file, file_alias_cache,
                 file_data_cache, printingLock, pausedLock, paused_repeated_report,
                 print_status_reporter, env_vars, writes, written, log, ghost_vars,
                 call_vars, side_vars>>

\* BambuVirtualPrinter.new_update("event_printer_data_update") with the remote
\* job state print_job_state: _update_printer_info
Push(print_job_state) ==
  /\ pushes < MaxPushes
  /\ pushes' = pushes + 1
  /\ lastPush' = print_job_state
  /\ ams_data' = GoodAms
  /\ telemetry' = GoodTemperature
  /\ push_raised' = ""
  /\ state_change_queue' = state_change_queue \o StateFor(print_job_state)
  /\ sc_unfinished' = sc_unfinished + Len(StateFor(print_job_state))
  /\ expected' = IF StateFor(print_job_state) = <<>> THEN expected
                 ELSE StateFor(print_job_state)[1]
  /\ UNCHANGED <<serial_vars, current_state, worker, running, current_print_job,
                 selected_project_file, file_alias_cache, file_data_cache, printingLock,
                 pausedLock, paused_repeated_report, print_status_reporter,
                 env_vars, writes, written, log,
                 ghost_vars, call_vars, catalog_vars, last_mapping>>

\* the whole program, driven by a host that selects and starts a file and by
\* telemetry
Next ==
  \/ \E data \in PrintPayloads : Write(data)
  \/ ReadLine
  \/ ReaderGet
  \/ ReaderProcess
  \/ WorkerStart
  \/ WorkerGet
  \/ WorkerChange
  \/ WorkerTaskDone
  \/ \E s \in JobStates : Push(s)

Spec == Init /\ [][Next]_vars

\* the serial side alone: any host traffic, no telemetry
NextSerial ==
  \/ \E data \in Payloads : Write(data)
  \/ ReadLine
  \/ ReaderGet
  \/ ReaderProcess
  \/ WorkerStart

SpecSerial == Init /\ [][NextSerial]_vars

\* the lifecycle side alone: telemetry and the worker, a silent host
NextState ==
  \/ ReadLine
  \/ WorkerStart
  \/ WorkerGet
  \/ WorkerChange
  \/ WorkerTaskDone
  \/ \E s \in JobStates : Push(s)

SpecState == Init /\ [][NextState]_vars

\* print control: a host that pauses, resumes and cancels while telemetry
\* reports a running and a paused job
NextControl ==
  \/ \E data \in ControlPayloads : Write(data)
  \/ ReadLine
  \/ ReaderGet
  \/ ReaderProcess
  \/ WorkerStart
  \/ WorkerGet
  \/ WorkerChange
  \/ WorkerTaskDone
  \/ \E s \in {"RUNNING", "PAUSE"} : Push(s)

SpecControl == Init /\ [][NextControl]_vars

\* the inbound buffer: a host that writes more than the buffer holds, while
\* the reader thread drains it
NextWrite ==
  \/ \E data \in WritePayloads : Write(data)
  \/ WriteWake
  \/ WriteTimeout
  \/ ReadLine
  \/ ReaderGet
  \/ ReaderProcess

SpecWrite == Init /\ [][NextWrite]_vars

\* what a host that numbers its lines writes: the reset of the line number,
\* line 1 with a corrupted checksum, line 1 with its checksum
ChecksumPayloads == { LineM110, Framed(LineN1, 1), Framed(LineN1, 0) }

\* line numbers and checksums: a host that numbers its lines
NextChecksum ==
  \/ \E data \in ChecksumPayloads : Write(data)
  \/ ReadLine
  \/ ReaderGet
  \/ ReaderProcess

SpecChecksum == Init /\ [][NextChecksum]_vars

LineN3 == <<"N", "3", " ", "M", "1", "0", "5">>

\* what a host writes whose line numbers go wrong: line 1 on a new endpoint,
\* and after the reset of the line number line 1, line 3, and line 3 with its
\* checksum followed by line 1 with a corrupted one
NumberPayloads ==
  { LineN1 \o <<"\n">>,
    LineM110 \o LineN1 \o <<"\n">>,
    LineM110 \o LineN3 \o <<"\n">>,
    LineM110 \o Framed(LineN3, 0) \o Framed(LineN1, 1) }

\* line numbers: a host whose numbering goes wrong
NextNumber ==
  \/ \E data \in NumberPayloads : Write(data)
  \/ ReadLine
  \/ ReaderGet
  \/ ReaderProcess

SpecNumber == Init /\ [][NextNumber]_vars

\* commands with a local handler, as <<gcode, full_command>>: the status
\* report with and without an interval, the case light with a known and an
\* unknown argument, the selection of a listed and of a missing file
LocalCommands ==
  { <<<<"M", "2", "7">>, <<"M", "2", "7">>>>,
    <<<<"M", "2", "7">>, <<"M", "2", "7", " ", "S", "2">>>>,
    <<<<"M", "3", "5", "5">>, <<"M", "3", "5", "5", " ", "S", "1">>>>,
    <<<<"M", "3", "5", "5">>, <<"M", "3", "5", "5", " ", "X">>>>,
    <<<<"M", "2", "3">>, <<"M", "2", "3", " ">> \o NameA>>,
    <<<<"M", "2", "3">>, <<"M", "2", "3", " ", "z">>>> }

\* a command without a local handler
RemoteCommands == { <<<<"G", "2", "8">>, <<"G", "2", "8">>>> }

\* the command callback alone: the line number is reset over the serial
\* line, and commands reach _process_gcode_serial_command as it declares them
NextDispatch ==
  \/ Write(LineM110)
  \/ ReadLine
  \/ ReaderGet
  \/ ReaderProcess
  \/ \E cmd \in LocalCommands \cup RemoteCommands : Dispatch(cmd[1], cmd[2])

SpecDispatch == Init /\ [][NextDispatch]_vars

\* the files that come to the SD card: names that are the short names other
\* files are given, a name already present in the other folder, and a file the
\* filters leave out
UploadFiles ==
  { [folder |-> <<>>, name |-> <<"a", "~", "1", ".", "3", "m", "f">>, size |-> 10,
     date |-> "0x58a80000"],
    [folder |-> CacheFolder, name |-> <<"a", "~", "1", ".", "3", "m", "f">>, size |-> 20,
     date |-> "0x58a80000"],
    [folder |-> CacheFolder, name |-> NameB, size |-> 30, date |-> "0x58a80000"],
    [folder |-> <<>>, name |-> <<"c", ".", "t", "x", "t">>, size |-> 40,
     date |-> "0x58a80000"] }

CommandM20 == <<"M", "2", "0">>

\* the catalog: files arrive on the SD card and the listing is refreshed
NextCatalog ==
  \/ \E f \in UploadFiles : Upload(f)
  \/ Dispatch(CommandM20, CommandM20)

SpecCatalog == Init /\ [][NextCatalog]_vars

\* acknowledgements: the line number is reset over the serial line, and the
\* listing command and a command without a local handler reach the command
\* callback
NextAck ==
  \/ Write(LineM110)
  \/ ReadLine
  \/ ReaderGet
  \/ ReaderProcess
  \/ Dispatch(CommandM20, CommandM20)
  \/ \E cmd \in RemoteCommands : Dispatch(cmd[1], cmd[2])

SpecAck == Init /\ [][NextAck]_vars

\* a file that comes to the SD card while the catalog is in use
NameC == <<"c", ".", "3", "m", "f">>
LateFiles ==
  { [folder |-> <<>>, name |-> NameC, size |-> 50, date |-> "0x58a80000"],
    [folder |-> CacheFolder, name |-> NameC, size |-> 60, date |-> "0x58a80000"] }

\* the catalog under two threads: files arrive, the reader refreshes with M20,
\* and another thread refreshes the same view
NextRefresh ==
  \/ \E f \in LateFiles : Upload(f)
  \/ Dispatch(CommandM20, CommandM20)
  \/ RefreshList
  \/ RefreshAlias
  \/ RefreshData

SpecRefresh == Init /\ [][NextRefresh]_vars

\* the filaments a sliced project declares: the type as the slicer and as
\* the printer write it, with and without a tray index, and without a type
Filaments ==
  { [type |-> "PLA", tray_info_idx |-> "GFA00"],
    [type |-> "pla", tray_info_idx |-> "GFA00"],
    [type |-> "PETG", tray_info_idx |-> "GFG00"],
    [type |-> "PLA", tray_info_idx |-> ""],
    [type |-> "", tray_info_idx |-> "GFA00"] }

\* lists of at most n filaments
FilamentLists(n) == UNION { [1..k -> Filaments] : k \in 0..n }

\* trays: loaded PLA, loaded PETG, an empty slot that remembers PLA, a loaded
\* spool without a tray index
TrayPLA == [empty |-> FALSE, type |-> "PLA", idx |-> "GFA00"]
TrayPETG == [empty |-> FALSE, type |-> "PETG", idx |-> "GFG00"]
TrayEmptied == [empty |-> TRUE, type |-> "PLA", idx |-> "GFA00"]
TrayUntagged == [empty |-> FALSE, type |-> "PLA", idx |-> ""]

\* the AMS data met: none, one unit, two units, a unit without trays first
AmsInputs ==
  { <<>>,
    <<[has_tray |-> TRUE, tray |-> <<TrayPETG, TrayPLA, TrayPLA>>]>>,
    <<[has_tray |-> TRUE, tray |-> <<TrayEmptied, TrayUntagged, TrayPETG, TrayPLA>>]>>,
    <<[has_tray |-> TRUE, tray |-> <<TrayPETG, TrayUntagged>>],
      [has_tray |-> TRUE, tray |-> <<TrayEmptied, TrayPLA, TrayPETG>>]>>,
    <<[has_tray |-> FALSE, tray |-> <<>>],
      [has_tray |-> TRUE, tray |-> <<TrayPLA, TrayPETG>>]>>,
    <<[has_tray |-> TRUE, tray |-> <<TrayUntagged, TrayEmptied>>]>> }

\* the mapping of filaments to trays alone
NextMapping ==
  \/ \E ams \in AmsInputs : GenerateMapping(<<>>, ams)
  \/ \E fl \in FilamentLists(MaxFilaments), ams \in AmsInputs : GenerateMapping(<<fl>>, ams)

SpecMapping == Init /\ [][NextMapping]_vars

\* telemetry alone: pushes that are well formed, with a known and an unknown
\* job state, and pushes that lack a part
NextTelemetry ==
  \/ \E s \in {"RUNNING", "PAUSE", "SLICING"} : Push(s)
  \/ \E dev \in MalformedDevices : PushMalformed(dev)
  \/ WorkerStart
  \/ WorkerGet
  \/ WorkerChange
  \/ WorkerTaskDone

SpecTelemetry == Init /\ [][NextTelemetry]_vars

\* start or resume, and cancel, as <<gcode, full_command>>
JobCommands ==
  { <<<<"M", "2", "4">>, <<"M", "2", "4">>>>,
    <<<<"M", "5", "2", "4">>, <<"M", "5", "2", "4">>>> }

\* print control against a remote controller that may refuse: the job is
\* reported paused, and the host resumes or cancels
NextRefusal ==
  \/ \E cmd \in JobCommands : Dispatch(cmd[1], cmd[2])
  \/ WorkerStart
  \/ WorkerGet
  \/ WorkerChange
  \/ WorkerTaskDone
  \/ Push("PAUSE")

SpecRefusal == Init /\ [][NextRefusal]_vars

\* what is looked up by name: a display name, a short name that is also the
\* name of another file, a path in the other folder, a name with slashes
\* around it, a name that no file has
LookupNames ==
  { NameA, <<"a", "~", "1", ".", "3", "m", "f">>, CacheFolder \o NameB,
    <<"/">> \o NameA, <<"z">> }

\* what is looked up by stem: a stem, a stem with its suffix, the stem of no
\* file, the empty stem
LookupStems == { <<"a">>, NameB, <<"z">>, <<>> }

\* the catalog in use: files arrive and the three lookups are made
NextLookup ==
  \/ \E f \in UploadFiles : Upload(f)
  \/ \E arg \in LookupNames : Lookup("get_file_data", arg)
  \/ \E arg \in LookupNames : Lookup("get_file_data_cached", arg)
  \/ \E arg \in LookupStems : Lookup("get_file_by_stem", arg)

SpecLookup == Init /\ [][NextLookup]_vars

\* the command of print control, as <<gcode, full_command>>
ControlCommands ==
  { <<<<"M", "2", "4">>, <<"M", "2", "4">>>> }

\* the telemetry that print control meets
ControlPushes == {"RUNNING", "PAUSE", "FINISH"}

\* the three threads together: the command callback of the reader with print
\* control, the telemetry callback and the state worker
NextThreads ==
  \/ \E cmd \in ControlCommands : Dispatch(cmd[1], cmd[2])
  \/ WorkerStart
  \/ WorkerGet
  \/ WorkerChange
  \/ WorkerTaskDone
  \/ \E s \in ControlPushes : Push(s)

SpecThreads == Init /\ [][NextThreads]_vars

\* what the host writes before it flushes or closes
SyncPayloads == { <<"M", "2", "0", "\n">> }

\* the telemetry a flush or a close meets
SyncPushes == {"RUNNING", "FINISH"}

\* synchronization: a host that writes and flushes while telemetry arrives
NextFlush ==
  \/ \E data \in SyncPayloads : Write(data)
  \/ FlushCall
  \/ FlushReturn
  \/ ReadLine
  \/ ReaderGet
  \/ ReaderProcess
  \/ WorkerStart
  \/ WorkerGet
  \/ WorkerChange
  \/ WorkerTaskDone
  \/ \E s \in SyncPushes : Push(s)

SpecFlush == Init /\ [][NextFlush]_vars

\* shutdown: a host that writes, closes, and goes on writing and reading
NextClose ==
  \/ \E data \in SyncPayloads : Write(data)
  \/ CloseCall
  \/ CloseStopReader
  \/ CloseStopWorker
  \/ CloseReturn
  \/ ReadLine
  \/ ReadLineEmpty
  \/ ReaderGet
  \/ ReaderProcess
  \/ WorkerStart
  \/ WorkerGet
  \/ WorkerChange
  \/ WorkerTaskDone
  \/ WorkerExit
  \/ \E s \in SyncPushes : Push(s)

SpecClose == Init /\ [][NextClose]_vars

\* the states telemetry requests while the host thread flushes
RequestPushes == {"RUNNING", "PAUSE"}

\* state-change requests and flush(): telemetry requests states, the worker
\* applies them, and after the first request the host thread may write a
\* line and call flush()
NextRequests ==
  \/ \E s \in RequestPushes : Push(s)
  \/ WorkerStart
  \/ WorkerGet
  \/ WorkerChange
  \/ WorkerTaskDone
  \/ pushes >= 1 /\ (\E data \in SyncPayloads : Write(data))
  \/ pushes >= 1 /\ FlushCall
  \/ FlushReturn
  \/ ReaderGet
  \/ ReaderProcess

\* the reader thread and the worker thread are scheduled fairly, and the host
\* thread returns from flush() whenever what it waits for has happened
SpecRequests ==
  /\ Init
  /\ [][NextRequests]_vars
  /\ WF_vars(ReaderGet)
  /\ WF_vars(ReaderProcess)
  /\ WF_vars(WorkerStart)
  /\ WF_vars(WorkerGet)
  /\ WF_vars(WorkerChange)
  /\ WF_vars(WorkerTaskDone)
  /\ WF_vars(FlushReturn)

\* what the host writes around an emergency stop
ShutdownPayloads == { LineM112, <<"M", "2", "0", "\n">> }

\* the emergency stop: the host writes M112 and goes on writing; the reader
\* thread handles the line, through the callback as the reader calls it or
\* as the callback declares it
NextShutdown ==
  \/ \E data \in ShutdownPayloads : Write(data)
  \/ ReaderGet
  \/ ReaderProcess
  \/ ReaderShutdown
  \/ WorkerStart

\* the reader thread and the worker thread are scheduled fairly
SpecShutdown ==
  /\ Init
  /\ [][NextShutdown]_vars
  /\ WF_vars(ReaderGet)
  /\ WF_vars(ReaderProcess \/ ReaderShutdown)
  /\ WF_vars(WorkerStart)

\* the host thread in flush() and close(): it may write a line first, and
\* nothing else arrives
NextBlocking ==
  \/ \E data \in SyncPayloads : Write(data)
  \/ FlushCall
  \/ FlushReturn
  \/ CloseCall
  \/ CloseStopReader
  \/ CloseStopWorker
  \/ CloseReturn
  \/ ReaderGet
  \/ ReaderProcess
  \/ WorkerStart
  \/ WorkerGet
  \/ WorkerChange
  \/ WorkerTaskDone
  \/ WorkerExit

\* the reader thread and the worker thread are scheduled fairly, and the host
\* thread goes on in flush() and close() whenever what it waits for has
\* happened; the host is free not to write or call at all
SpecBlocking ==
  /\ Init
  /\ [][NextBlocking]_vars
  /\ WF_vars(ReaderGet)
  /\ WF_vars(ReaderProcess)
  /\ WF_vars(WorkerStart)
  /\ WF_vars(WorkerGet)
  /\ WF_vars(WorkerChange)
  /\ WF_vars(WorkerTaskDone)
  /\ WF_vars(WorkerExit)
  /\ WF_vars(FlushReturn)
  /\ WF_vars(CloseStopReader)
  /\ WF_vars(CloseStopWorker)
  /\ WF_vars(CloseReturn)

\* the state-change queue has drained: _state_change_queue.join() returns
Drained == sc_unfinished = 0

\* ------------------------------------------------------------------ claims

\* the lines processed so far: one record per call of _process_input_gcode_line
Processed == 1..Len(log)

Sent(e, text) == \E k \in 1..Len(e.out) : e.out[k] = text

\* the selection is the catalog entry with this display name
SelectedIs(sel, name) == sel # <<>> /\ PathName(sel[1].path) = name

LineM20 == <<"M", "2", "0", "\n">>
LineM23A == <<"M", "2", "3", " ">> \o NameA \o <<"\n">>
LineM24 == <<"M", "2", "4", "\n">>
LineM30Z == <<"M", "3", "0", " ", "z", "\n">>
LineG28 == <<"G", "2", "8", "\n">>

\* C1: once the state-change queue has drained after telemetry pushes, the
\* lifecycle state is the one the job-state mapping gives for the last known
\* job state pushed (Printing for RUNNING/PREPARE, Paused for PAUSE, Idle for
\* IDLE/FINISH/FAILED), a push of any other string leaving it unchanged.
C1_DrainedStateIsMapped ==
  (Drained /\ expected # "any") => current_state = expected

\* C2: the lines handed to line processing are the newline-terminated lines of
\* the bytes written, each once and in the order written; bytes without their
\* newline are never processed as a line.
C2_LinesProcessedOnceInOrder ==
  \A i \in Processed :
    /\ i <= Len(CompleteLines(written))
    /\ log[i].line = CompleteLines(written)[i]

\* C3: when line 1 with a corrupted checksum has been answered by Resend:1,
\* the next submission of line 1 with the correct checksum is accepted (the
\* expected line number moves to 1) and its command is processed.
C3_ResendThenAccepted ==
  \A i \in Processed :
    (/\ i > 1
     /\ log[i - 1].line = Framed(LineN1, 1)
     /\ Sent(log[i - 1], "Resend:1")
     /\ log[i].line = Framed(LineN1, 0))
    => (log[i].raised = "" /\ log[i].lastN = 1)

\* C4: a G28 line, whose token has no local handler, is published to the
\* connected remote controller exactly once with the raw command text and a
\* newline as payload.
C4_UnhandledIsForwarded ==
  \A i \in Processed :
    (log[i].line = LineG28 /\ log[i].conn)
    => (log[i].raised = "" /\ log[i].pub = <<"gcode_line G28\n">>)

C6_SelectionSurvivesFinish ==
  (/\ \E i \in Processed : log[i].line = LineM23A
   /\ lastPush = "FINISH" /\ Drained /\ current_state = "Idle")
  => SelectedIs(selected_project_file, NameA)

\* C7: the output of one M20 is Begin file list, one line per catalog entry,
\* End file list and a single ok, and nothing else.
C7_M20OutputExact ==
  \A i \in Processed : log[i].line = LineM20 => log[i].out = update(Ctx).out

\* C8: M23 naming a file of the catalog selects it and emits the File opened
\* line followed by File selected.
C8_M23SelectsAndReports ==
  \A i \in Processed :
    log[i].line = LineM23A
    => (/\ SelectedIs(log[i].sel_after, NameA)
        /\ Len(log[i].out) >= 2
        /\ log[i].out[1] = "File opened: a.3mf Size: 1000"
        /\ log[i].out[2] = "File selected")

\* C9: M30 naming a file that is not in the catalog leaves the selection and
\* the remote files as they were, emits no File selected line, and the
\* endpoint keeps running and acknowledges the command.
C9_MissingFileIsHarmless ==
  \A i \in Processed :
    log[i].line = LineM30Z
    => (/\ log[i].sel_after = log[i].sel_before
        /\ remote_files = RemoteFilesInit
        /\ ~Sent(log[i], "File selected")
        /\ log[i].raised = ""
        /\ log[i].out # <<>>)

\* C10: M24 in Idle with no file selected publishes nothing, leaves the state
\* Idle, and the host still receives its acknowledgement.
C10_M24WithoutFile ==
  \A i \in Processed :
    (log[i].line = LineM24 /\ log[i].state = "Idle" /\ log[i].sel_before = <<>>)
    => (log[i].pub = <<>> /\ log[i].raised = "" /\ log[i].out # <<>>)
LineM25 == <<"M", "2", "5", "\n">>
LineM26S0 == <<"M", "2", "6", " ", "S", "0", "\n">>

\* C11: with the remote controller connected, M25 processed in state Printing publishes the pause command, M24
\* processed in state Paused publishes the resume command; each is published
\* exactly once and the host receives its acknowledgement.
C11_PauseAndResumePublished ==
  \A i \in Processed :
    /\ (log[i].line = LineM25 /\ log[i].state = "Printing" /\ log[i].conn)
       => (log[i].raised = "" /\ log[i].pub = <<"PAUSE">> /\ log[i].out # <<>>)
    /\ (log[i].line = LineM24 /\ log[i].state = "Paused" /\ log[i].conn)
       => (log[i].raised = "" /\ log[i].pub = <<"RESUME">> /\ log[i].out # <<>>)

\* C12: with the remote controller connected, M26 S0 processed in state
\* Printing or Paused publishes the stop
\* command, requests the state Idle and is acknowledged to the host.
C12_CancelPublishesStop ==
  \A i \in Processed :
    (log[i].line = LineM26S0 /\ log[i].state \in {"Printing", "Paused"} /\ log[i].conn)
    => (/\ log[i].raised = ""
        /\ log[i].pub = <<"STOP">>
        /\ log[i].enq = <<"Idle">>
        /\ log[i].out # <<>>)

\* C13: when the host has written M23 a.3mf and M24 and the remote has
\* reported RUNNING, the drained state is Printing and there is a current
\* print job, for a.3mf, at progress 0.
C13_RunningCreatesJob ==
  (written = LineM23A \o LineM24 /\ lastPush = "RUNNING" /\ Drained)
  => (/\ current_state = "Printing"
      /\ current_print_job # <<>>
      /\ PathName(current_print_job[1].file_info.path) = NameA
      /\ current_print_job[1].progress = 0)

Min(a, b) == IF a < b THEN a ELSE b

\* C15: a write() that finds the endpoint open and the inbound buffer holding
\* u < 64 bytes appends exactly the first min(len(data), 64 - u) bytes of data
\* and returns that count, and the buffer never holds more than 64 bytes
C15_PartialAcceptance ==
  /\ rx_size <= rx_buffer_size
  /\ (writes > 0 /\ last_write.open /\ last_write.u < rx_buffer_size)
     => LET n == Min(Len(last_write.data), rx_buffer_size - last_write.u)
        IN /\ last_write.raised = ""
           /\ last_write.appended = SubSeq(last_write.data, 1, n)
           /\ last_write.ret = n

\* C15: a write() of more bytes than are free, into a buffer that is neither
\* empty nor full, has been cut to the free space
C15_WriteWasCut ==
  /\ writes > 0
  /\ last_write.open
  /\ last_write.u > 0
  /\ last_write.u < rx_buffer_size
  /\ Len(last_write.data) > rx_buffer_size - last_write.u
  /\ last_write.ret = rx_buffer_size - last_write.u
  /\ rx_size = rx_buffer_size

\* C16: a write() fails with a timeout only when the inbound buffer had no
\* free byte up to the deadline, and then it leaves the buffer as it was
C16_TimeoutOnlyWhenFull ==
  last_write.raised = "SerialTimeoutException"
  => (last_write.free = 0 /\ last_write.appended = <<>>)

\* C17: when the serial flush() has returned, every complete line written
\* before the call has been processed by the reader loop
C17_FlushedLinesProcessed ==
  caller.pc = "flush_join"
  => \A i \in 1..caller.mark :
       \E j \in Processed : log[j].line = CompleteLines(written)[i]

C19_AfterClose ==
  caller.pc = "closed"
  => /\ reader.pc \in {"dead", "stopped"}
     /\ worker.pc = "done"
     /\ ~printingLock
     /\ ~pausedLock
     /\ (connected => disconnect_requested)
     /\ (last_write.after_close => (last_write.ret = 0 /\ last_write.raised = ""))
     /\ read_after_close # "line"

\* C20: line 1 with a corrupted checksum is not dispatched and is answered by
\* exactly an error line, Resend:<n> and ok, n being the line number the
\* endpoint accepts next
C20_BadChecksumAnswered ==
  \A i \in Processed :
    log[i].line = Framed(LineN1, 1)
    => /\ log[i].raised = ""
       /\ log[i].pub = <<>>
       /\ Len(log[i].out) = 3
       /\ log[i].out[1] \in {format_error("checksum_mismatch", <<>>),
                             format_error("checksum_missing", <<>>)}
       /\ log[i].out[2] = "Resend:" \o IntStr(log[i].lastN + 1)
       /\ log[i].out[3] = "ok"

\* the last accepted line number, 0 while none was accepted
Accepted(n) == IF n = Unset THEN 0 ELSE n

\* e answers with a request to resend
Resent(e) == e.raised = "" /\ Len(e.out) = 3 /\ e.out[3] = "ok"

\* C21: a line N<k> that is no M110 is handed to the command callback exactly
\* when k is the last accepted number plus one, and then k becomes the last
\* accepted number; otherwise it is answered by the line-number error,
\* Resend:<last accepted + 1> and ok
C21_NumberedLineChecked ==
  ~forceChecksum =>
    \A i \in Processed : \A k \in {1, 3} :
      log[i].line = (IF k = 1 THEN LineN1 ELSE LineN3) \o <<"\n">>
      => LET last == Accepted(log[i].lastN_before)
         IN IF k = last + 1
            THEN log[i].called /\ log[i].lastN = k
            ELSE /\ ~log[i].called
                 /\ log[i].raised = ""
                 /\ log[i].out = <<format_error("lineno_mismatch", <<last + 1, k>>),
                                   "Resend:" \o IntStr(last + 1), "ok">>

\* C22: a line answered by a request to resend leaves lastN and current_line
\* as they were, and two such lines in a row announce the same number
C22_BadLineKeepsCounters ==
  \A i \in Processed :
    Resent(log[i])
    => /\ log[i].lastN = log[i].lastN_before
       /\ log[i].current_line = log[i].current_line_before
       /\ (i > 1 /\ Resent(log[i - 1])) => log[i].out[2] = log[i - 1].out[2]

C23_HandlerErrorsContained ==
  \A i \in Processed :
    log[i].called
    => (log[i].raised = "" /\ (i = Len(log) => reader.pc # "dead"))

\* C24: a G28 line, which has no local handler, is acknowledged exactly when
\* the remote controller is connected and the publish succeeds; otherwise
\* nothing is sent to the host and selection, print job and lifecycle
\* requests are as before
C24_AckIffPublished ==
  \A i \in Processed :
    log[i].line = LineG28
    => IF log[i].conn /\ log[i].pub_ok
       THEN log[i].out # <<>>
       ELSE /\ log[i].out = <<>>
            /\ log[i].sel_after = log[i].sel_before
            /\ log[i].job_after = log[i].job_before
            /\ log[i].enq = <<>>

\* the files one refresh of the catalog lists: the .3mf files of the two
\* folders of the view
Listed(remote) ==
  {i \in 1..Len(remote) :
     remote[i].folder \in {<<>>, CacheFolder} /\ HasSuffix3mf(remote[i].name)}

C27_FinalizeThenInit ==
  [][current_state' # current_state
     => /\ current_state' \in {"Idle", "Printing", "Paused"}
        /\ prev_state' = current_state
        /\ printingLock' = (current_state' = "Printing")
        /\ pausedLock' = (current_state' = "Paused")
        /\ output_bytes' = output_bytes \o
             (IF current_state' = "Paused" THEN <<"// action:paused">> ELSE <<>>)]_vars

\* C27: the worker has left Printing for Paused
C27_ChangedPrintingToPaused ==
  /\ prev_state = "Printing"
  /\ current_state = "Paused"
  /\ worker.pc = "changed"

\* C29: the current state and the flags that init() and finalize() set change
\* only in a step of the state worker: the one that applies a request, or the
\* one that ends its loop
C29_OnlyWorkerTransitions ==
  [][(\/ current_state' # current_state
      \/ printingLock' # printingLock
      \/ pausedLock' # pausedLock
      \/ paused_repeated_report' # paused_repeated_report)
     => \/ worker.pc = "got" /\ worker'.pc = "changed"
        \/ worker.pc = "loop" /\ worker'.pc = "done"]_vars

\* C29: a command handler has requested a state on the reader's side, a
\* telemetry push has arrived, and the worker has applied a change
C29_RequestsFromBothSides ==
  /\ \E i \in Processed : log[i].enq # <<>>
  /\ pushes >= 1
  /\ prev_state # current_state
  /\ Drained

C28_CallsReturn ==
  (caller.pc \in {"flush_serial", "close_flush"}) ~> (caller.pc \in {"flushed", "closed"})

\* C31: every short name of the alias map resolves to an entry of the data map
C31_AliasResolves ==
  \A i \in 1..Len(file_alias_cache) : DictHas(file_data_cache, file_alias_cache[i].v)

\* the entry the maps hold for a path or a short name: the canonical path
\* first, the alias second
Cached(alias, data, name) ==
  IF DictHas(data, name) THEN DictGet(data, name)
  ELSE IF DictHas(alias, name) THEN DictGet(data, DictGet(alias, name)[1])
  ELSE <<>>

\* the entry the maps hold for a stem
CachedStem(alias, data, stem) ==
  get_file_by_stem_cached([alias |-> alias, data |-> data], stem, AllowedSuffixes)

\* what the last lookup was to find in the maps it met, and in the maps it left
LookupBefore ==
  IF last_lookup.op = "get_file_by_stem"
  THEN CachedStem(last_lookup.alias, last_lookup.data,
                  PathStem(with_suffix_empty(last_lookup.arg)))
  ELSE Cached(last_lookup.alias, last_lookup.data, StripSlashes(last_lookup.arg))

LookupAfter ==
  IF last_lookup.op = "get_file_by_stem"
  THEN CachedStem(file_alias_cache, file_data_cache,
                  PathStem(with_suffix_empty(last_lookup.arg)))
  ELSE Cached(file_alias_cache, file_data_cache, StripSlashes(last_lookup.arg))

\* C32 as stated: a lookup by name or by stem refreshes exactly once when the
\* cache does not hold what is asked for, and not at all when it does
C32_OneRefreshPerMiss ==
  last_lookup.op \in {"get_file_data", "get_file_by_stem"}
  => last_lookup.updates = (IF LookupBefore # <<>> THEN 0 ELSE 1)

\* C32: a lookup by name, or by a stem that is not empty, makes no refresh on
\* a hit and one on a miss, and returns what the cache then holds; a lookup by
\* the empty stem returns nothing without a refresh; get_file_data_cached
\* makes no refresh and resolves the canonical path first, the alias second
C32_RefreshOnlyOnMiss ==
  /\ (last_lookup.op \in {"get_file_data", "get_file_by_stem"}
       /\ last_lookup.arg # <<>>)
     => /\ last_lookup.updates = (IF LookupBefore # <<>> THEN 0 ELSE 1)
        /\ last_lookup.found = LookupAfter
  /\ (last_lookup.op = "get_file_by_stem" /\ last_lookup.arg = <<>>)
     => (last_lookup.updates = 0 /\ last_lookup.found = <<>>)
  /\ last_lookup.op = "get_file_data_cached"
     => /\ last_lookup.updates = 0
        /\ last_lookup.found = LookupAfter
        /\ file_alias_cache = last_lookup.alias
        /\ file_data_cache = last_lookup.data

\* C32: a lookup by a short name missed, refreshed once and found the file
\* through the alias map
C32_MissThenFound ==
  /\ last_lookup.op = "get_file_data"
  /\ last_lookup.updates = 1
  /\ last_lookup.found # <<>>
  /\ ~DictHas(file_data_cache, StripSlashes(last_lookup.arg))

\* the last step handled a start, resume or cancel in Idle or Paused while
\* the remote controller was disconnected or refused what was published
RefusedJobCommand ==
  /\ Len(log') = Len(log) + 1
  /\ \E cmd \in JobCommands : log'[Len(log')].line = cmd[2]
  /\ log'[Len(log')].state \in {"Idle", "Paused"}
  /\ (~log'[Len(log')].conn \/ ~log'[Len(log')].pub_ok)

C34_MissingOnlyWhenAbsent ==
  \A i \in Processed :
    log[i].raised = ""
    => (Sent(log[i], format_error("checksum_missing", <<>>))
        <=> (forceChecksum /\ rfind(log[i].line, "*") < 0))

\* C35: a push whose device data lacks a part lets no exception escape,
\* requests no state, and leaves the lifecycle state, the stored AMS data and
\* temperatures and the print job as they were
C35_MalformedPushSkipped ==
  [][(pushes' = pushes + 1 /\ lastPush' = "malformed")
     => /\ push_raised' = ""
        /\ state_change_queue' = state_change_queue
        /\ current_state' = current_state
        /\ ams_data' = ams_data
        /\ telemetry' = telemetry
        /\ current_print_job' = current_print_job]_vars

\* the positions <<unit, slot>> of the trays of ams that satisfy Test, and
\* the global id of the first of them in the order of units, then slots; -1
\* when there is none
Hits(ams, Test(_)) ==
  { p \in (0..(Len(ams) - 1)) \X (0..(TraysPerUnit - 1)) :
      /\ ams[p[1] + 1].has_tray
      /\ p[2] < Len(ams[p[1] + 1].tray)
      /\ Test(ams[p[1] + 1].tray[p[2] + 1]) }

FirstHit(ams, Test(_)) ==
  IF Hits(ams, Test) = {} THEN -1
  ELSE LET p == CHOOSE q \in Hits(ams, Test) :
                  \A r \in Hits(ams, Test) :
                    q[1] < r[1] \/ (q[1] = r[1] /\ q[2] <= r[2])
       IN p[1] * TraysPerUnit + p[2]

\* the filaments of the last call
MappedFilaments == IF last_mapping.metadata = <<>> THEN <<>> ELSE last_mapping.metadata[1]

C37_SameStateIsNoOp ==
  [][(worker.pc = "got" /\ worker'.pc # "got" /\ worker.next_state = current_state)
     => UNCHANGED <<current_state, printingLock, pausedLock, paused_repeated_report,
                    output_bytes, state_change_queue, sc_unfinished,
                    current_print_job, prev_state>>]_vars

\* C37: a second PAUSE push has been applied while Paused was current, and
\* the entry line of Paused has been sent once
C37_RepeatedPauseApplied ==
  /\ worker.pc = "returned"
  /\ current_state = "Paused"
  /\ pausedLock
  /\ Cardinality({i \in 1..Len(output_bytes) : output_bytes[i] = "// action:paused"}) = 1

\* the acknowledgement lines among the output of one command: the bare ok of
\* sendOk and the numbered ok of _process_gcode_serial_command
Acks(e) ==
  Cardinality({k \in 1..Len(e.out) :
                 e.out[k] \in {"ok", "ok " \o IntStr(e.lastN + 1) \o "\n"}})

C39_RequestsProcessed ==
  <>[](state_change_queue = <<>> /\ sc_unfinished = 0 /\ worker.pc \in {"start", "loop"})

\* C39: every state-change request is dequeued and applied by the worker in
\* the end, and a flush() called after a request was made returns
C39_ProcessedThenFlushReturns ==
  /\ C39_RequestsProcessed
  /\ (caller.pc = "flush_serial" /\ pushes >= 1) ~> (caller.pc = "flushed")

====
